---- MODULE Spec2Model ----
(***************************************************************************)
(* Model of the life-calendar statistics engine (src/utils/habitStats.ts). *)
(*                                                                         *)
(* A date string "YYYY-MM-DD" is modelled by its three zero-padded numeric *)
(* fields <<year, month, day>>; the fields have fixed width, so the        *)
(* code-unit order in which the code compares two date strings is the      *)
(* lexicographic order of their fields.  A JavaScript Date is modelled by  *)
(* the number of whole days since 1970-01-01 at local midnight; getTime()  *)
(* is counted in seconds instead of milliseconds so that it fits the       *)
(* TLC's integers (every instant used is a whole number of seconds).       *)
(***************************************************************************)
EXTENDS Integers, Sequences, FiniteSets, TLC

(***************************************************************************)
(* Bounds of the explored input space.                                     *)
(***************************************************************************)
\* longest completionDates array
MaxLen == 3
\* completion dates reach back to today - Back (and forward to tomorrow)
Back == 3
\* longest analytics window, in days, explored with every record on it
MaxDays == 3
\* most records of a map explored on a two-week or one-week range of dates
MaxRecords == 2

(***************************************************************************)
(* Date strings.                                                           *)
(***************************************************************************)
\* a < b for two date strings: field by field, as the characters compare
StrLess(a, b) ==
    \/ a[1] < b[1]
    \/ a[1] = b[1] /\ a[2] < b[2]
    \/ a[1] = b[1] /\ a[2] = b[2] /\ a[3] < b[3]

StrLeq(a, b) == a = b \/ StrLess(a, b)

\* a.localeCompare(b): negative, zero or positive
localeCompare(a, b) == IF a = b THEN 0 ELSE IF StrLess(a, b) THEN -1 ELSE 1

(***************************************************************************)
(* JavaScript Date, local time.                                            *)
(***************************************************************************)
SecondsPerDay == 86400

\* days since 1970-01-01 of the proleptic Gregorian date y-m-d (m in 1..12)
DaysFromCivil(y, m, d) ==
    LET yy  == IF m <= 2 THEN y - 1 ELSE y
        era == yy \div 400
        yoe == yy - era * 400
        mp  == (m + 9) % 12
        doy == (153 * mp + 2) \div 5 + d - 1
        doe == yoe * 365 + yoe \div 4 - yoe \div 100 + doy
    IN  era * 146097 + doe - 719468

\* the Gregorian date of day number z, month 0-based as in JavaScript
CivilFromDays(z) ==
    LET z2  == z + 719468
        era == z2 \div 146097
        doe == z2 - era * 146097
        yoe == (doe - doe \div 1460 + doe \div 36524 - doe \div 146096) \div 365
        doy == doe - (365 * yoe + yoe \div 4 - yoe \div 100)
        mp  == (5 * doy + 2) \div 153
        d   == doy - (153 * mp + 2) \div 5 + 1
        m   == IF mp < 10 THEN mp + 3 ELSE mp - 9
        y   == yoe + era * 400 + (IF m <= 2 THEN 1 ELSE 0)
    IN  [year |-> y, month |-> m - 1, date |-> d]

\* new Date(year, monthIndex, day): out-of-range months and days roll over
NewDate(year, monthIndex, day) ==
    [days |-> DaysFromCivil(year + monthIndex \div 12, (monthIndex % 12) + 1, 1)
              + day - 1]

getFullYear(date) == CivilFromDays(date.days).year
getMonth(date) == CivilFromDays(date.days).month
getDate(date) == CivilFromDays(date.days).date
\* 0 = Sunday; 1970-01-01 was a Thursday
getDay(date) == (date.days + 4) % 7
getTime(date) == date.days * SecondsPerDay

(***************************************************************************)
(* utils/dates: calendar-correct date arithmetic on "YYYY-MM-DD" strings.  *)
(***************************************************************************)
formatDate(date) ==
    LET civil == CivilFromDays(date.days)
    IN  <<civil.year, civil.month + 1, civil.date>>

parseDate(dateStr) == NewDate(dateStr[1], dateStr[2] - 1, dateStr[3])

\* the date n days after dateStr (n may be negative)
addDays(dateStr, n) == formatDate([days |-> parseDate(dateStr).days + n])

(***************************************************************************)
(* Array helpers.                                                          *)
(***************************************************************************)
\* the two comparators the code sorts with
Compare(cmp, a, b) ==
    IF cmp = "descending" THEN localeCompare(b, a) ELSE localeCompare(a, b)

\* insert x into a sequence already ordered by cmp
RECURSIVE InsertSorted(_, _, _)
InsertSorted(s, x, cmp) ==
    IF Len(s) = 0 THEN <<x>>
    ELSE IF Compare(cmp, x, Head(s)) < 0 THEN <<x>> \o s
    ELSE <<Head(s)>> \o InsertSorted(Tail(s), x, cmp)

\* [...a].sort(cmp)
RECURSIVE Sort(_, _)
Sort(s, cmp) ==
    IF Len(s) = 0 THEN << >>
    ELSE InsertSorted(Sort(SubSeq(s, 1, Len(s) - 1), cmp), s[Len(s)], cmp)

\* a.filter(Keep)
filter(s, Keep(_)) == SelectSeq(s, Keep)

\* new Set(a)
NewSet(s) == {s[i] : i \in 1..Len(s)}

\* Math.round(n / d * 100) for n >= 0 and d > 0: halves round up
RoundPercent(n, d) == (200 * n + d) \div (2 * d)

(***************************************************************************)
(* utils/habitStats.ts: streak calculations.                               *)
(***************************************************************************)
\* faulty variant: a repeated date is counted again
RECURSIVE CurrentStreakLoopCountsRepeats(_, _, _, _)
CurrentStreakLoopCountsRepeats(sorted, i, streak, expectedDate) ==
    IF i > Len(sorted) THEN streak
    ELSE IF sorted[i] = expectedDate
         THEN CurrentStreakLoopCountsRepeats(sorted, i + 1, streak + 1,
                  addDays(expectedDate, -1))
    ELSE IF StrLess(sorted[i], expectedDate) THEN streak
    ELSE CurrentStreakLoopCountsRepeats(sorted, i + 1, streak + 1, expectedDate)

\* the for-of loop of calculateCurrentStreak, from index i on
RECURSIVE CurrentStreakLoop(_, _, _, _)
CurrentStreakLoop(sorted, i, streak, expectedDate) ==
    IF i > Len(sorted) THEN streak
    ELSE IF sorted[i] = expectedDate
         THEN CurrentStreakLoop(sorted, i + 1, streak + 1, addDays(expectedDate, -1))
    ELSE IF StrLess(sorted[i], expectedDate) THEN streak
    ELSE CurrentStreakLoop(sorted, i + 1, streak, expectedDate)

\* faulty variant: only a completion today keeps the streak alive
calculateCurrentStreakTodayOnly(completionDates, today) ==
    IF Len(completionDates) = 0 THEN 0
    ELSE LET sorted == Sort(completionDates, "descending")
         IN  IF sorted[1] # today THEN 0
             ELSE CurrentStreakLoop(sorted, 1, 0, today)

calculateCurrentStreak(completionDates, today) ==
    IF Len(completionDates) = 0 THEN 0
    ELSE LET sorted    == Sort(completionDates, "descending")
             yesterday == addDays(today, -1)
         IN  IF sorted[1] # today /\ sorted[1] # yesterday THEN 0
             ELSE CurrentStreakLoop(sorted, 1, 0,
                      IF sorted[1] = today THEN today ELSE yesterday)

\* faulty variant: a repeated date resets the run like any other non-successor
RECURSIVE LongestStreakLoopDupReset(_, _, _, _)
LongestStreakLoopDupReset(sorted, i, longest, current) ==
    IF i > Len(sorted) THEN longest
    ELSE IF sorted[i] = addDays(sorted[i - 1], 1)
         THEN LongestStreakLoopDupReset(sorted, i + 1,
                  IF current + 1 > longest THEN current + 1 ELSE longest,
                  current + 1)
         ELSE LongestStreakLoopDupReset(sorted, i + 1, longest, 1)

\* the for loop of calculateLongestStreak, from index i on (1-based)
RECURSIVE LongestStreakLoop(_, _, _, _)
LongestStreakLoop(sorted, i, longest, current) ==
    IF i > Len(sorted) THEN longest
    ELSE LET prevDate     == sorted[i - 1]
             currDate     == sorted[i]
             expectedNext == addDays(prevDate, 1)
         IN  IF currDate = expectedNext
             THEN LongestStreakLoop(sorted, i + 1,
                      IF current + 1 > longest THEN current + 1 ELSE longest,
                      current + 1)
             ELSE IF currDate # prevDate
             THEN LongestStreakLoop(sorted, i + 1, longest, 1)
             ELSE LongestStreakLoop(sorted, i + 1, longest, current)

\* faulty variant: the array is scanned in the order given, without sorting
calculateLongestStreakUnsorted(completionDates) ==
    IF Len(completionDates) = 0 THEN 0
    ELSE LongestStreakLoop(completionDates, 2, 1, 1)

calculateLongestStreak(completionDates) ==
    IF Len(completionDates) = 0 THEN 0
    ELSE LongestStreakLoop(Sort(completionDates, "ascending"), 2, 1, 1)

(***************************************************************************)
(* utils/habitStats.ts: period statistics.                                 *)
(***************************************************************************)
\* faulty variant: Sunday is not mapped to the end of the week
getWeekStartSundayFirst(today) ==
    LET date           == parseDate(today)
        dayOfWeek      == getDay(date)
        daysFromMonday == dayOfWeek - 1
    IN  addDays(today, -daysFromMonday)

getWeekStart(today) ==
    LET date           == parseDate(today)
        dayOfWeek      == getDay(date)
        daysFromMonday == IF dayOfWeek = 0 THEN 6 ELSE dayOfWeek - 1
    IN  addDays(today, -daysFromMonday)

getMonthStart(today) ==
    LET date == parseDate(today)
    IN  formatDate(NewDate(getFullYear(date), getMonth(date), 1))

getYearStart(today) ==
    LET date == parseDate(today)
    IN  formatDate(NewDate(getFullYear(date), 0, 1))

countDays(startDate, endDate) ==
    LET start  == parseDate(startDate)
        end    == parseDate(endDate)
        diffMs == getTime(end) - getTime(start)
    IN  (diffMs \div SecondsPerDay) + 1

calculatePeriodStats(completionDates, periodStart, periodEnd) ==
    LET total == countDays(periodStart, periodEnd)
        InPeriod(date) == StrLeq(periodStart, date) /\ StrLeq(date, periodEnd)
        completionsInPeriod == filter(completionDates, InPeriod)
        completed  == Len(completionsInPeriod)
        percentage == IF total > 0 THEN RoundPercent(completed, total) ELSE 0
    IN  [completed |-> completed, total |-> total, percentage |-> percentage]

calculateThisWeek(completionDates, today) ==
    calculatePeriodStats(completionDates, getWeekStart(today), today)

\* faulty variant: the month window runs to the end of the month
calculateThisMonthWhole(completionDates, today) ==
    LET date == parseDate(today)
    IN  calculatePeriodStats(completionDates, getMonthStart(today),
            formatDate(NewDate(getFullYear(date), getMonth(date) + 1, 0)))

calculateThisMonth(completionDates, today) ==
    calculatePeriodStats(completionDates, getMonthStart(today), today)

calculateThisYear(completionDates, today) ==
    calculatePeriodStats(completionDates, getYearStart(today), today)

(***************************************************************************)
(* utils/habitStats.ts: month calendar.                                    *)
(***************************************************************************)
\* faulty variant: the last day is taken from the month before
generateMonthCalendarPrevLength(completionDates, today) ==
    LET todayDate     == parseDate(today)
        year          == getFullYear(todayDate)
        month         == getMonth(todayDate)
        lastDay       == getDate(NewDate(year, month, 0))
        completionSet == NewSet(completionDates)
    IN  [day \in 1..lastDay |->
            LET date == formatDate(NewDate(year, month, day))
            IN  [date      |-> date,
                 completed |-> date \in completionSet,
                 isToday   |-> date = today,
                 isFuture  |-> StrLess(today, date)]]

generateMonthCalendar(completionDates, today) ==
    LET todayDate     == parseDate(today)
        year          == getFullYear(todayDate)
        month         == getMonth(todayDate)
        lastDay       == getDate(NewDate(year, month + 1, 0))
        completionSet == NewSet(completionDates)
    IN  [day \in 1..lastDay |->
            LET date == formatDate(NewDate(year, month, day))
            IN  [date      |-> date,
                 completed |-> date \in completionSet,
                 isToday   |-> date = today,
                 isFuture  |-> StrLess(today, date)]]

calculateHabitStats(completionDates, today) ==
    [currentStreak |-> calculateCurrentStreak(completionDates, today),
     longestStreak |-> calculateLongestStreak(completionDates),
     thisWeek      |-> calculateThisWeek(completionDates, today),
     thisMonth     |-> calculateThisMonth(completionDates, today),
     thisYear      |-> calculateThisYear(completionDates, today),
     monthCalendar |-> generateMonthCalendar(completionDates, today)]

(***************************************************************************)
(* utils/analytics.ts: the daily records.                                  *)
(*                                                                         *)
(* dailyData is a function from the date strings that have a record to     *)
(* records [habits, reflection]; habits is a function from the habit ids   *)
(* that have a value to BOOLEAN; a reflection is the sequence of its       *)
(* characters.  A date or an id outside the domain reads as undefined.     *)
(***************************************************************************)
DAY_NAMES == <<"Sun", "Mon", "Tue", "Wed", "Thu", "Fri", "Sat">>

\* day && day.habits[habitId] !== undefined, for day = dailyData[date]
HasValue(dailyData, date, habitId) ==
    /\ date \in DOMAIN dailyData
    /\ habitId \in DOMAIN dailyData[date].habits

\* day?.habits[habitId] is truthy, for day = dailyData[date]
IsDone(dailyData, date, habitId) ==
    /\ HasValue(dailyData, date, habitId)
    /\ dailyData[date].habits[habitId]

\* faulty variant: the fraction is dropped
MathFloor(n, d) == n \div d

\* Math.round(n / d) for n >= 0 and d > 0: halves round up
MathRound(n, d) == (2 * n + d) \div (2 * d)

\* total > 0 ? Math.round((completed / total) * 100) : 0
RateOf(completed, total) ==
    IF total > 0 THEN RoundPercent(completed, total) ELSE 0

\* the dates fromDate, fromDate - 1, ..., fromDate - (days - 1)
getDateRange(days, fromDate) == [i \in 1..days |-> addDays(fromDate, 0 - (i - 1))]

(***************************************************************************)
(* utils/analytics.ts: per-habit metrics.                                  *)
(***************************************************************************)
\* faulty variant: a date without record counts as a day the habit was
\* not completed
RECURSIVE CompletionRateLoopCountsMissing(_, _, _, _, _, _)
CompletionRateLoopCountsMissing(dailyData, habitId, dates, i, completed, total) ==
    IF i > Len(dates) THEN [completed |-> completed, total |-> total]
    ELSE IF HasValue(dailyData, dates[i], habitId)
         THEN CompletionRateLoopCountsMissing(dailyData, habitId, dates, i + 1,
                  IF dailyData[dates[i]].habits[habitId]
                  THEN completed + 1 ELSE completed,
                  total + 1)
    ELSE CompletionRateLoopCountsMissing(dailyData, habitId, dates, i + 1, completed,
             IF dates[i] \in DOMAIN dailyData THEN total ELSE total + 1)

\* the for-of loop of getCompletionRate, from index i on
RECURSIVE CompletionRateLoop(_, _, _, _, _, _)
CompletionRateLoop(dailyData, habitId, dates, i, completed, total) ==
    IF i > Len(dates) THEN [completed |-> completed, total |-> total]
    ELSE IF HasValue(dailyData, dates[i], habitId)
         THEN CompletionRateLoop(dailyData, habitId, dates, i + 1,
                  IF dailyData[dates[i]].habits[habitId]
                  THEN completed + 1 ELSE completed,
                  total + 1)
    ELSE CompletionRateLoop(dailyData, habitId, dates, i + 1, completed, total)

\* faulty variant: every date of the range is in the denominator
getCompletionRateWholeRange(dailyData, habitId, dates) ==
    LET c == CompletionRateLoop(dailyData, habitId, dates, 1, 0, 0)
    IN  RateOf(c.completed, Len(dates))

getCompletionRate(dailyData, habitId, dates) ==
    LET c == CompletionRateLoop(dailyData, habitId, dates, 1, 0, 0)
    IN  RateOf(c.completed, c.total)

\* the second for-of loop of getDayOfWeekRates, from index i on
RECURSIVE DayOfWeekLoop(_, _, _, _, _)
DayOfWeekLoop(dailyData, habitId, dates, i, counts) ==
    IF i > Len(dates) THEN counts
    ELSE LET date      == dates[i]
             dayOfWeek == DAY_NAMES[getDay(parseDate(date)) + 1]
             c         == counts[dayOfWeek]
         IN  IF HasValue(dailyData, date, habitId)
             THEN DayOfWeekLoop(dailyData, habitId, dates, i + 1,
                      [counts EXCEPT ![dayOfWeek] =
                          [completed |-> IF dailyData[date].habits[habitId]
                                         THEN c.completed + 1 ELSE c.completed,
                           total     |-> c.total + 1]])
             ELSE DayOfWeekLoop(dailyData, habitId, dates, i + 1, counts)

getDayOfWeekRates(dailyData, habitId, dates) ==
    LET zero   == [dayName \in NewSet(DAY_NAMES) |-> [completed |-> 0, total |-> 0]]
        counts == DayOfWeekLoop(dailyData, habitId, dates, 1, zero)
    IN  [dayName \in NewSet(DAY_NAMES) |->
            RateOf(counts[dayName].completed, counts[dayName].total)]

\* faulty variant: a day that is not done does not end the run
RECURSIVE BestStreakLoopNoReset(_, _, _, _, _, _)
BestStreakLoopNoReset(dailyData, habitId, sortedDates, i, bestStreak, currentStreak) ==
    IF i > Len(sortedDates) THEN bestStreak
    ELSE IF IsDone(dailyData, sortedDates[i], habitId)
         THEN BestStreakLoopNoReset(dailyData, habitId, sortedDates, i + 1,
                  IF currentStreak + 1 > bestStreak
                  THEN currentStreak + 1 ELSE bestStreak,
                  currentStreak + 1)
    ELSE BestStreakLoopNoReset(dailyData, habitId, sortedDates, i + 1,
                               bestStreak, currentStreak)

\* the for-of loop of getBestStreak, from index i on
RECURSIVE BestStreakLoop(_, _, _, _, _, _)
BestStreakLoop(dailyData, habitId, sortedDates, i, bestStreak, currentStreak) ==
    IF i > Len(sortedDates) THEN bestStreak
    ELSE IF IsDone(dailyData, sortedDates[i], habitId)
         THEN BestStreakLoop(dailyData, habitId, sortedDates, i + 1,
                  IF currentStreak + 1 > bestStreak
                  THEN currentStreak + 1 ELSE bestStreak,
                  currentStreak + 1)
    ELSE BestStreakLoop(dailyData, habitId, sortedDates, i + 1, bestStreak, 0)

getBestStreak(dailyData, habitId, dates) ==
    BestStreakLoop(dailyData, habitId, Sort(dates, "ascending"), 1, 0, 0)

\* the while loop of getCurrentStreak
RECURSIVE CurrentStreakWalk(_, _, _, _)
CurrentStreakWalk(dailyData, habitId, currentDate, streak) ==
    IF IsDone(dailyData, currentDate, habitId)
    THEN CurrentStreakWalk(dailyData, habitId, addDays(currentDate, -1), streak + 1)
    ELSE streak

getCurrentStreak(dailyData, habitId, fromDate) ==
    CurrentStreakWalk(dailyData, habitId,
        IF ~IsDone(dailyData, fromDate, habitId)
        THEN addDays(fromDate, -1) ELSE fromDate,
        0)

\* faulty variant: a difference of exactly 10 points already is a trend
getTrendInclusive(dailyData, habitId, fromDate) ==
    LET recentRate   == getCompletionRate(dailyData, habitId, getDateRange(7, fromDate))
        previousRate == getCompletionRate(dailyData, habitId,
                            getDateRange(7, addDays(fromDate, -7)))
        diff         == recentRate - previousRate
    IN  IF diff >= 10 THEN "up"
        ELSE IF diff <= -10 THEN "down"
        ELSE "stable"

getTrend(dailyData, habitId, fromDate) ==
    LET recent7      == getDateRange(7, fromDate)
        previous7    == getDateRange(7, addDays(fromDate, -7))
        recentRate   == getCompletionRate(dailyData, habitId, recent7)
        previousRate == getCompletionRate(dailyData, habitId, previous7)
        diff         == recentRate - previousRate
    IN  IF diff > 10 THEN "up"
        ELSE IF diff < -10 THEN "down"
        ELSE "stable"

\* faulty variant: the rates and the best streak read one day more than
\* the window
computeHabitAnalyticsLongWindow(dailyData, habits, days, fromDate) ==
    LET dates == getDateRange(days + 1, fromDate)
    IN  [i \in 1..Len(habits) |->
            [name           |-> habits[i].label,
             completionRate |-> getCompletionRate(dailyData, habits[i].id, dates),
             dayOfWeekRates |-> getDayOfWeekRates(dailyData, habits[i].id, dates),
             currentStreak  |-> getCurrentStreak(dailyData, habits[i].id, fromDate),
             bestStreak     |-> getBestStreak(dailyData, habits[i].id, dates),
             trend          |-> getTrend(dailyData, habits[i].id, fromDate)]]

computeHabitAnalytics(dailyData, habits, days, fromDate) ==
    LET dates == getDateRange(days, fromDate)
    IN  [i \in 1..Len(habits) |->
            [name           |-> habits[i].label,
             completionRate |-> getCompletionRate(dailyData, habits[i].id, dates),
             dayOfWeekRates |-> getDayOfWeekRates(dailyData, habits[i].id, dates),
             currentStreak  |-> getCurrentStreak(dailyData, habits[i].id, fromDate),
             bestStreak     |-> getBestStreak(dailyData, habits[i].id, dates),
             trend          |-> getTrend(dailyData, habits[i].id, fromDate)]]

(***************************************************************************)
(* utils/analytics.ts: correlations, day patterns and reflections.         *)
(***************************************************************************)
\* faulty variant: elements with equal keys come out in reverse order
SortDescendingTiesReversed(a, keys) ==
    LET n    == Len(a)
        rank == [i \in 1..n |->
                    Cardinality({k \in 1..n :
                        \/ keys[k] > keys[i]
                        \/ keys[k] = keys[i] /\ k > i}) + 1]
    IN  [p \in 1..n |-> a[CHOOSE i \in 1..n : rank[i] = p]]

\* a.sort((x, y) => key(y) - key(x)), keys[i] being the key of a[i]:
\* descending by key, and stable, so elements with equal keys keep the
\* order they had in a
SortDescending(a, keys) ==
    LET n    == Len(a)
        rank == [i \in 1..n |->
                    Cardinality({k \in 1..n :
                        \/ keys[k] > keys[i]
                        \/ keys[k] = keys[i] /\ k < i}) + 1]
    IN  [p \in 1..n |-> a[CHOOSE i \in 1..n : rank[i] = p]]

\* a.slice(0, end)
slice(a, end) == SubSeq(a, 1, IF end < Len(a) THEN end ELSE Len(a))

\* faulty variant: every day with a record counts as a day either was done
RECURSIVE CoOccurrenceLoopEveryRecord(_, _, _, _, _, _, _)
CoOccurrenceLoopEveryRecord(dailyData, idA, idB, dates, k, bothDone, eitherDone) ==
    IF k > Len(dates) THEN [bothDone |-> bothDone, eitherDone |-> eitherDone]
    ELSE IF dates[k] \notin DOMAIN dailyData
         THEN CoOccurrenceLoopEveryRecord(dailyData, idA, idB, dates, k + 1,
                                          bothDone, eitherDone)
    ELSE CoOccurrenceLoopEveryRecord(dailyData, idA, idB, dates, k + 1,
             IF IsDone(dailyData, dates[k], idA) /\ IsDone(dailyData, dates[k], idB)
             THEN bothDone + 1 ELSE bothDone,
             eitherDone + 1)

\* the for-of loop over the dates of computeCorrelations, from index k on
RECURSIVE CoOccurrenceLoop(_, _, _, _, _, _, _)
CoOccurrenceLoop(dailyData, idA, idB, dates, k, bothDone, eitherDone) ==
    IF k > Len(dates) THEN [bothDone |-> bothDone, eitherDone |-> eitherDone]
    ELSE IF dates[k] \notin DOMAIN dailyData
         THEN CoOccurrenceLoop(dailyData, idA, idB, dates, k + 1, bothDone, eitherDone)
    ELSE LET aCompleted == IsDone(dailyData, dates[k], idA)
             bCompleted == IsDone(dailyData, dates[k], idB)
         IN  IF aCompleted \/ bCompleted
             THEN CoOccurrenceLoop(dailyData, idA, idB, dates, k + 1,
                      IF aCompleted /\ bCompleted THEN bothDone + 1 ELSE bothDone,
                      eitherDone + 1)
             ELSE CoOccurrenceLoop(dailyData, idA, idB, dates, k + 1,
                      bothDone, eitherDone)

\* the two nested for loops over the pairs i < j (1-based), from (i, j) on
RECURSIVE PairLoop(_, _, _, _, _, _)
PairLoop(dailyData, habits, dates, i, j, correlations) ==
    IF i > Len(habits) THEN correlations
    ELSE IF j > Len(habits)
         THEN PairLoop(dailyData, habits, dates, i + 1, i + 2, correlations)
    ELSE LET habitA == habits[i]
             habitB == habits[j]
             c == CoOccurrenceLoop(dailyData, habitA.id, habitB.id, dates, 1, 0, 0)
             correlation == RoundPercent(c.bothDone, c.eitherDone)
         IN  PairLoop(dailyData, habits, dates, i, j + 1,
                 IF c.eitherDone > 0 /\ correlation >= 50
                 THEN Append(correlations,
                          [habitA      |-> habitA.label,
                           habitB      |-> habitB.label,
                           correlation |-> correlation])
                 ELSE correlations)

\* faulty variant: the pairs are returned in the order they were found
computeCorrelationsUnsorted(dailyData, habits, days, fromDate) ==
    LET dates == getDateRange(days, fromDate)
    IN  slice(PairLoop(dailyData, habits, dates, 1, 2, << >>), 5)

computeCorrelations(dailyData, habits, days, fromDate) ==
    LET dates        == getDateRange(days, fromDate)
        correlations == PairLoop(dailyData, habits, dates, 1, 2, << >>)
        strengths    == [i \in 1..Len(correlations) |-> correlations[i].correlation]
    IN  slice(SortDescending(correlations, strengths), 5)

\* faulty variant: the values a record holds for ids outside the habit
\* list are tallied too
RECURSIVE DayTotalsHabitLoopEveryValue(_, _, _, _, _)
DayTotalsHabitLoopEveryValue(dailyData, habits, date, h, t) ==
    IF h > Len(habits)
    THEN IF date \in DOMAIN dailyData
         THEN LET other == DOMAIN dailyData[date].habits
                               \ {habits[i].id : i \in 1..Len(habits)}
              IN  [completed |-> t.completed
                       + Cardinality({id \in other : dailyData[date].habits[id]}),
                   possible  |-> t.possible + Cardinality(other)]
         ELSE t
    ELSE IF HasValue(dailyData, date, habits[h].id)
         THEN DayTotalsHabitLoopEveryValue(dailyData, habits, date, h + 1,
                  [completed |-> IF dailyData[date].habits[habits[h].id]
                                 THEN t.completed + 1 ELSE t.completed,
                   possible  |-> t.possible + 1])
    ELSE DayTotalsHabitLoopEveryValue(dailyData, habits, date, h + 1, t)

\* the for-of loop over the habits of computeDayPatterns, from index h on
RECURSIVE DayTotalsHabitLoop(_, _, _, _, _)
DayTotalsHabitLoop(dailyData, habits, date, h, t) ==
    IF h > Len(habits) THEN t
    ELSE IF HasValue(dailyData, date, habits[h].id)
         THEN DayTotalsHabitLoop(dailyData, habits, date, h + 1,
                  [completed |-> IF dailyData[date].habits[habits[h].id]
                                 THEN t.completed + 1 ELSE t.completed,
                   possible  |-> t.possible + 1])
    ELSE DayTotalsHabitLoop(dailyData, habits, date, h + 1, t)

\* the for-of loop over the dates of computeDayPatterns, from index i on
RECURSIVE DayTotalsLoop(_, _, _, _, _)
DayTotalsLoop(dailyData, habits, dates, i, dayTotals) ==
    IF i > Len(dates) THEN dayTotals
    ELSE LET dayOfWeek == DAY_NAMES[getDay(parseDate(dates[i])) + 1]
         IN  DayTotalsLoop(dailyData, habits, dates, i + 1,
                 [dayTotals EXCEPT ![dayOfWeek] =
                     DayTotalsHabitLoop(dailyData, habits, dates[i], 1,
                                        dayTotals[dayOfWeek])])

\* the combined rate of every weekday, as computeDayPatterns tallies it
DayRates(dailyData, habits, dates) ==
    LET zero      == [dayName \in NewSet(DAY_NAMES) |-> [completed |-> 0, possible |-> 0]]
        dayTotals == DayTotalsLoop(dailyData, habits, dates, 1, zero)
    IN  [dayName \in NewSet(DAY_NAMES) |->
            RateOf(dayTotals[dayName].completed, dayTotals[dayName].possible)]

computeDayPatterns(dailyData, habits, days, fromDate) ==
    LET dates       == getDateRange(days, fromDate)
        dayRates    == DayRates(dailyData, habits, dates)
        \* Object.entries(dayRates): the keys in the order they were inserted
        entries     == [i \in 1..Len(DAY_NAMES) |-> <<DAY_NAMES[i], dayRates[DAY_NAMES[i]]>>]
        rates       == [i \in 1..Len(entries) |-> entries[i][2]]
        sortedDays  == SortDescending(entries, rates)
        bestDay     == IF Len(sortedDays) = 0 THEN "Mon" ELSE sortedDays[1][1]
        worstDay    == IF Len(sortedDays) = 0 THEN "Sun"
                       ELSE sortedDays[Len(sortedDays)][1]
        weekdaySum  == dayRates["Mon"] + dayRates["Tue"] + dayRates["Wed"]
                       + dayRates["Thu"] + dayRates["Fri"]
        weekendSum  == dayRates["Sat"] + dayRates["Sun"]
    IN  [bestDay    |-> bestDay,
         worstDay   |-> worstDay,
         weekdayAvg |-> MathRound(weekdaySum, 5),
         weekendAvg |-> MathRound(weekendSum, 2)]

\* the characters String.prototype.trim removes that the records use
Whitespace == {" ", "\n"}

\* s.trim()
trim(s) ==
    LET kept == {i \in 1..Len(s) : s[i] \notin Whitespace}
    IN  IF kept = {} THEN << >>
        ELSE SubSeq(s, CHOOSE i \in kept : \A k \in kept : i <= k,
                       CHOOSE i \in kept : \A k \in kept : k <= i)

\* faulty variant: a reflection of whitespace only is returned too
RECURSIVE ReflectionsLoopKeepsBlank(_, _, _, _)
ReflectionsLoopKeepsBlank(dailyData, dates, i, reflections) ==
    IF i > Len(dates) THEN reflections
    ELSE IF /\ dates[i] \in DOMAIN dailyData
            /\ Len(dailyData[dates[i]].reflection) > 0
         THEN LET reflection == dailyData[dates[i]].reflection
                  truncated  == IF Len(reflection) > 100
                                THEN slice(reflection, 100) \o <<".", ".", ".">>
                                ELSE reflection
              IN  ReflectionsLoopKeepsBlank(dailyData, dates, i + 1,
                                            Append(reflections, truncated))
    ELSE ReflectionsLoopKeepsBlank(dailyData, dates, i + 1, reflections)

\* the for-of loop of getRecentReflections, from index i on
RECURSIVE ReflectionsLoop(_, _, _, _)
ReflectionsLoop(dailyData, dates, i, reflections) ==
    IF i > Len(dates) THEN reflections
    ELSE IF /\ dates[i] \in DOMAIN dailyData
            /\ Len(dailyData[dates[i]].reflection) > 0
            /\ Len(trim(dailyData[dates[i]].reflection)) > 0
         THEN LET reflection == dailyData[dates[i]].reflection
                  truncated  == IF Len(reflection) > 100
                                THEN slice(reflection, 100) \o <<".", ".", ".">>
                                ELSE reflection
              IN  ReflectionsLoop(dailyData, dates, i + 1,
                                  Append(reflections, truncated))
    ELSE ReflectionsLoop(dailyData, dates, i + 1, reflections)

getRecentReflections(dailyData, days, fromDate) ==
    ReflectionsLoop(dailyData, getDateRange(days, fromDate), 1, << >>)

computeHistoricalAnalytics(dailyData, habits, days, fromDate) ==
    [periodDays        |-> days,
     habits            |-> computeHabitAnalytics(dailyData, habits, days, fromDate),
     correlations      |-> computeCorrelations(dailyData, habits, days, fromDate),
     dayPatterns       |-> computeDayPatterns(dailyData, habits, days, fromDate),
     recentReflections |-> getRecentReflections(dailyData, 7, fromDate)]

(***************************************************************************)
(* The engine as a state machine: a caller holds one habit's completion    *)
(* dates and a reference date and applies the exported functions to them.  *)
(***************************************************************************)
VARIABLES completionDates, today, call, result, dailyData, habits, days,
          auth, server, pending, view, localStorage, requests, rendered

vars == <<completionDates, today, call, result, dailyData, habits, days,
          auth, server, pending, view, localStorage, requests, rendered>>

\* the inputs and the result of the engine's pure functions
engine == <<completionDates, today, call, result, days>>

\* the state of the providers and of the insight component
app == <<auth, server, pending, view, localStorage, requests, rendered>>

\* the value null of a field that holds an object otherwise
Null == [null |-> TRUE]

\* useState of AuthProvider: nobody signed in, the session not yet known
InitialAuthState == [user |-> Null, profile |-> Null, loading |-> TRUE, error |-> "null"]

\* useState of AiInsight: nothing generated, the prompt closed
InitialView ==
    [insight |-> "null", loading |-> FALSE, error |-> "null",
     showContextPrompt |-> FALSE, contextInput |-> << >>]

\* the providers and the insight component as constructed: no session and
\* no row at the backend, nothing in flight, nothing stored in the browser
Constructed ==
    /\ auth = InitialAuthState
    /\ server = [session |-> Null, profiles |-> << >>, completions |-> {}]
    /\ pending = {}
    /\ view = InitialView
    /\ localStorage = << >>
    /\ requests = << >>
    /\ rendered = << >>

\* the date string of year y, month m (1..12), day d
DateStr(y, m, d) == formatDate(NewDate(y, m - 1, d))

\* reference dates: a leap day and the day after it, the last three days of
\* a leap year, New Year's Day, and the last day of a common-year February
\* with the day after it; between them they fall on every day of the week
Todays ==
    {DateStr(2024, 2, 29), DateStr(2024, 3, 1), DateStr(2024, 12, 29),
     DateStr(2024, 12, 30), DateStr(2024, 12, 31), DateStr(2025, 1, 1),
     DateStr(2025, 2, 28), DateStr(2025, 3, 1)}

\* the dates a call may mention: the last days up to the reference date,
\* and the day after it
NearDates(t) == {addDays(t, k) : k \in (0 - Back)..1}

\* arrays of at most MaxLen dates, any order, repetitions allowed
DateArrays(t) == UNION {[1..n -> NearDates(t)] : n \in 0..MaxLen}

Init ==
    /\ today \in Todays
    /\ completionDates \in DateArrays(today)
    /\ call = [fn |-> "none"]
    /\ result = "none"
    /\ dailyData = << >>
    /\ habits = << >>
    /\ days = 0
    /\ Constructed

\* no call has been made on the inputs yet
Idle == call.fn = "none"

\* the functions are pure: one call on the inputs, one returned value
Returns(c, r) ==
    /\ call' = c
    /\ result' = r
    /\ UNCHANGED <<completionDates, today, dailyData, habits, days, app>>

CalculateCurrentStreak ==
    /\ Idle
    /\ Returns([fn |-> "calculateCurrentStreak"],
               calculateCurrentStreak(completionDates, today))

CalculateLongestStreak ==
    /\ Idle
    /\ Returns([fn |-> "calculateLongestStreak"],
               calculateLongestStreak(completionDates))

GetWeekStart ==
    /\ Idle
    /\ Returns([fn |-> "getWeekStart"], getWeekStart(today))

CalculatePeriodStats ==
    /\ Idle
    /\ \E periodStart \in NearDates(today),
          periodEnd \in {addDays(today, -1), today} :
           Returns([fn |-> "calculatePeriodStats",
                    periodStart |-> periodStart, periodEnd |-> periodEnd],
                   calculatePeriodStats(completionDates, periodStart, periodEnd))

CalculateThisWeek ==
    /\ Idle
    /\ Returns([fn |-> "calculateThisWeek"],
               calculateThisWeek(completionDates, today))

CalculateThisMonth ==
    /\ Idle
    /\ Returns([fn |-> "calculateThisMonth"],
               calculateThisMonth(completionDates, today))

CalculateThisYear ==
    /\ Idle
    /\ Returns([fn |-> "calculateThisYear"],
               calculateThisYear(completionDates, today))

GenerateMonthCalendar ==
    /\ Idle
    /\ Returns([fn |-> "generateMonthCalendar"],
               generateMonthCalendar(completionDates, today))

CalculateHabitStats ==
    /\ Idle
    /\ Returns([fn |-> "calculateHabitStats"],
               calculateHabitStats(completionDates, today))

Next ==
    \/ CalculateCurrentStreak
    \/ CalculateLongestStreak
    \/ GetWeekStart
    \/ CalculatePeriodStats
    \/ CalculateThisWeek
    \/ CalculateThisMonth
    \/ CalculateThisYear
    \/ GenerateMonthCalendar
    \/ CalculateHabitStats

Spec == Init /\ [][Next]_vars

(***************************************************************************)
(* The analytics composer as a state machine: the insight view holds the   *)
(* daily records, the habit list, the window length and the selected date  *)
(* (today) and applies the analytics functions to them.                    *)
(***************************************************************************)
\* the habit definitions of a habit list
HabitA == [id |-> "a", label |-> "Alpha"]
HabitB == [id |-> "b", label |-> "Beta"]
HabitC == [id |-> "c", label |-> "Gamma"]
HabitD == [id |-> "d", label |-> "Delta"]

\* the ids of a habit list
HabitIds(list) == {list[i].id : i \in 1..Len(list)}

\* selected dates whose last three days cover, between them, every weekday:
\* Wed..Fri across a leap day, Sat..Mon and Mon..Wed across a year end
FromDates == {DateStr(2024, 3, 1), DateStr(2024, 12, 30), DateStr(2025, 1, 1)}

\* the dates t, t - 1, ..., t - back
DatesBack(t, back) == {addDays(t, 0 - k) : k \in 0..back}

\* every assignment of a value to some of the ids
HabitMaps(ids) == UNION {[H -> BOOLEAN] : H \in SUBSET ids}

\* every map that has a record from Records for some of the dates
DailyMaps(Dates, Records) == UNION {[D -> Records] : D \in SUBSET Dates}

\* every map that has a record from Records for at most n of the dates
SparseMaps(Dates, Records, n) ==
    UNION {[D -> Records] : D \in {E \in SUBSET Dates : Cardinality(E) <= n}}

\* a text of n visible characters
Text(n) == [i \in 1..n |-> "x"]

\* short reflections: blank ones, and one with whitespace around its text
ShortTexts == {<<" ">>, <<" ", "x", "\n">>}

\* records of a day that carry a short reflection and no habit value
ReflectionRecords == {[habits |-> << >>, reflection |-> r] : r \in ShortTexts}

\* records of a day: any values for the ids and no reflection, or no values
\* and a short reflection
DayRecords(ids) ==
    {[habits |-> m, reflection |-> << >>] : m \in HabitMaps(ids)}
    \cup ReflectionRecords

\* what the caller holds before a call: the inputs, and no call made
Holds(froms, lists, lengths) ==
    /\ today \in froms
    /\ habits \in lists
    /\ days \in lengths
    /\ completionDates = << >>
    /\ call = [fn |-> "none"]
    /\ result = "none"
    /\ Constructed

\* the record in which the habits of S are done and the other ids are not
DoneRecord(ids, S) == [habits |-> [id \in ids |-> id \in S], reflection |-> << >>]

\* any habit values on the days of the window
WindowMaps(list, t, n) ==
    DailyMaps(DatesBack(t, n - 1), DayRecords(HabitIds(list)) \ ReflectionRecords)

\* any habit values on the days of the window; the day before the window
\* has no record, or one with every habit done
HabitMapsAround(list, t, n) ==
    LET before == addDays(t, 0 - n)
        done   == [habits |-> [id \in HabitIds(list) |-> TRUE], reflection |-> << >>]
    IN  {w @@ b : w \in WindowMaps(list, t, n),
                  b \in {<< >>, [d \in {before} |-> done]}}

\* any habit values or a short reflection on the days of the window
ReflectedMaps(list, t, n) ==
    DailyMaps(DatesBack(t, n - 1), DayRecords(HabitIds(list)))

InitHabits ==
    /\ Holds(FromDates, {<<HabitA, HabitB>>}, 1..MaxDays)
    /\ dailyData \in HabitMapsAround(habits, today, days)

\* two habits with any values, or three habits with true or false each,
\* on the days of the window
PatternMaps(list, t, n) ==
    IF Len(list) <= 2 THEN WindowMaps(list, t, n)
    ELSE DailyMaps(DatesBack(t, n - 1),
                   {DoneRecord(HabitIds(list), S) : S \in SUBSET HabitIds(list)})

\* one habit, so that every map that agrees with the records on the window
\* can be compared with them
InitWindow ==
    /\ Holds(FromDates, {<<HabitA>>}, 1..MaxDays)
    /\ dailyData \in HabitMapsAround(habits, today, days)

InitPatterns ==
    /\ Holds(FromDates, {<<HabitA, HabitB>>, <<HabitA, HabitB, HabitC>>}, 1..MaxDays)
    /\ dailyData \in PatternMaps(habits, today, days)

InitHistorical ==
    /\ Holds({DateStr(2024, 12, 30)}, {<<HabitA, HabitB>>}, 1..MaxDays)
    /\ dailyData \in ReflectedMaps(habits, today, days)

\* records left behind by a removed habit: the values of the habits of
\* the list, all or none of them, with or without the value true for the
\* id of HabitC, which is not in the list
OrphanRecords(list) ==
    {[habits |-> m @@ o, reflection |-> << >>] :
        m \in [HabitIds(list) -> BOOLEAN] \cup {<< >>},
        o \in {<< >>, [id \in {HabitC.id} |-> TRUE]}}

OrphanMaps(list, t, n) == DailyMaps(DatesBack(t, n - 1), OrphanRecords(list))

InitOrphans ==
    /\ Holds({DateStr(2024, 12, 30)}, {<<HabitA, HabitB>>}, 1..MaxDays)
    /\ dailyData \in OrphanMaps(habits, today, days)

\* the habits done on a day: any of three habits; of four, none, a pair
\* or a larger group
DoneSets(ids) ==
    IF Cardinality(ids) <= 3 THEN SUBSET ids
    ELSE {{}, {"a", "b"}, {"c", "d"}, {"a", "b", "c"}, {"b", "c", "d"},
          {"a", "b", "c", "d"}}

\* records with true or false for every habit of the list on the days of a
\* short window; on a 10-day window no record at all, or the same record
\* on every day
CorrelationMaps(list, t, n) ==
    LET ids     == HabitIds(list)
        Records == {DoneRecord(ids, S) : S \in DoneSets(ids)}
    IN  IF n <= MaxDays THEN DailyMaps(DatesBack(t, n - 1), Records)
        ELSE {<< >>} \cup {[d \in DatesBack(t, n - 1) |-> r] : r \in Records}

InitCorrelations ==
    /\ Holds({DateStr(2024, 3, 1)},
             {<<HabitA, HabitB, HabitC>>, <<HabitA, HabitB, HabitC, HabitD>>},
             (1..MaxDays) \cup {10})
    /\ dailyData \in CorrelationMaps(habits, today, days)

\* the map in which the habit has a value on the first tR days of the recent
\* week, true on the first cR of them, and on the first tP days of the
\* week before it, true on the first cP of them
TrendLayout(id, t, cR, tR, cP, tP) ==
    LET Value(done) == [habits |-> [i \in {id} |-> done], reflection |-> << >>]
    IN  [d \in {addDays(t, 0 - k) : k \in 0..(tR - 1)}
                \cup {addDays(t, 0 - 7 - k) : k \in 0..(tP - 1)} |->
            LET k == parseDate(t).days - parseDate(d).days
            IN  Value(IF k < 7 THEN k < cR ELSE k - 7 < cP)]

\* a few records anywhere on the last 15 days, or any number of completed
\* and observed days in each of the two weeks getTrend compares
TrendMaps(list, t, n) ==
    LET id == list[1].id
    IN  SparseMaps(DatesBack(t, 14), DayRecords({id}) \ ReflectionRecords, MaxRecords)
        \cup {TrendLayout(id, t, cR, tR, cP, tP) :
                 cR \in 0..7, tR \in 0..7, cP \in 0..7, tP \in 0..7}

InitTrend ==
    /\ Holds({DateStr(2025, 1, 1)}, {<<HabitA>>}, {30})
    /\ dailyData \in TrendMaps(habits, today, days)

\* reflections: none, blank, short with or without whitespace around the
\* text, and texts of 100 and 101 characters with or without whitespace
\* that brings them to 101 characters
Texts ==
    {<< >>, <<" ">>, <<"x">>} \cup ShortTexts
    \cup {Text(100), Text(101), <<" ">> \o Text(100), Text(99) \o <<" ", "\n">>}

\* a few records with a reflection anywhere on the last 8 days
ReflectionMaps(list, t, n) ==
    SparseMaps(DatesBack(t, 7),
               {[habits |-> << >>, reflection |-> r] : r \in Texts}, MaxRecords)

InitReflections ==
    /\ Holds({DateStr(2025, 1, 1)}, {<<HabitA>>}, {30})
    /\ dailyData \in ReflectionMaps(habits, today, days)

ComputeHabitAnalytics ==
    /\ Idle
    /\ Returns([fn |-> "computeHabitAnalytics"],
               computeHabitAnalytics(dailyData, habits, days, today))

ComputeCorrelations ==
    /\ Idle
    /\ Returns([fn |-> "computeCorrelations"],
               computeCorrelations(dailyData, habits, days, today))

ComputeDayPatterns ==
    /\ Idle
    /\ Returns([fn |-> "computeDayPatterns"],
               computeDayPatterns(dailyData, habits, days, today))

\* computeHistoricalAnalytics asks for the reflections of 7 days
GetRecentReflections ==
    /\ Idle
    /\ Returns([fn |-> "getRecentReflections"],
               getRecentReflections(dailyData, 7, today))

ComputeHistoricalAnalytics ==
    /\ Idle
    /\ Returns([fn |-> "computeHistoricalAnalytics"],
               computeHistoricalAnalytics(dailyData, habits, days, today))

\* computeHabitAnalytics asks for the trend of each habit of the list
GetTrend ==
    /\ Idle
    /\ \E i \in 1..Len(habits) :
           Returns([fn |-> "getTrend", habitId |-> habits[i].id],
                   getTrend(dailyData, habits[i].id, today))

NextHabits == ComputeHabitAnalytics

SpecHabits == InitHabits /\ [][NextHabits]_vars

NextCorrelations == ComputeCorrelations

SpecCorrelations == InitCorrelations /\ [][NextCorrelations]_vars

NextTrend == GetTrend

SpecTrend == InitTrend /\ [][NextTrend]_vars

NextReflections == GetRecentReflections

SpecReflections == InitReflections /\ [][NextReflections]_vars

NextWindow == ComputeHabitAnalytics

SpecWindow == InitWindow /\ [][NextWindow]_vars

NextPatterns == ComputeDayPatterns

SpecPatterns == InitPatterns /\ [][NextPatterns]_vars

NextHistorical == ComputeHistoricalAnalytics

SpecHistorical == InitHistorical /\ [][NextHistorical]_vars

NextOrphans == ComputeHistoricalAnalytics

SpecOrphans == InitOrphans /\ [][NextOrphans]_vars

(***************************************************************************)
(* store/AuthContext.tsx, AuthProvider: the session state, and the calls   *)
(* in flight at the auth service and at the profiles table.  A call in     *)
(* flight is a record of pending that names the operation, the await it    *)
(* stands at and the values its closure holds.                             *)
(***************************************************************************)
\* the users the auth service knows
Users == {[id |-> "u1"], [id |-> "u2"]}

\* the texts of a personal context; the empty one stands for null
Contexts == {<< >>, <<"g">>}

\* the row of the profiles table of a user
ProfileRow(userId, context) ==
    [id |-> userId, personal_context |-> context, ai_tone |-> "stoic"]

\* the results supabase.auth.signInWithPassword and signUp resolve to, as
\* signIn and signUp of services/auth pass them on: an error message, a
\* user, or neither
AuthResults ==
    {[user |-> Null, error |-> "invalid username or password"]}
    \cup {[user |-> u, error |-> "null"] : u \in Users \cup {Null}}

\* the number of calls that may be in flight at once
MaxPending == 2

\* one more call may be started
MayStart == Cardinality(pending) < MaxPending

\* what fetchProfile resolves to: the row of the user, or null on an error
FetchedProfiles(userId) ==
    {Null} \cup (IF userId \in DOMAIN server.profiles
                 THEN {server.profiles[userId]} ELSE {})

\* login and signup up to their first await
StartAuthCall(op) ==
    /\ auth' = [auth EXCEPT !.loading = TRUE, !.error = "null"]
    /\ pending' = pending \cup {[op |-> op, at |-> "auth"]}
    /\ UNCHANGED <<engine, dailyData, habits, server, view, localStorage, requests, rendered>>

Login ==
    /\ MayStart
    /\ StartAuthCall("login")

Signup ==
    /\ MayStart
    /\ StartAuthCall("signup")

\* the auth service answers a login or signup with an error: the call
\* returns false
AuthCallFails ==
    \E p \in {q \in pending : q.op \in {"login", "signup"} /\ q.at = "auth"} :
        \E r \in {a \in AuthResults : a.error # "null"} :
            /\ auth' = [auth EXCEPT !.loading = FALSE, !.error = r.error]
            /\ pending' = pending \ {p}
            /\ UNCHANGED <<engine, dailyData, habits, server, view, localStorage, requests, rendered>>

\* the auth service answers with a user: the session is that user's, and
\* the call goes on to fetch the profile
AuthCallGetsUser ==
    \E p \in {q \in pending : q.op \in {"login", "signup"} /\ q.at = "auth"} :
        \E r \in {a \in AuthResults : a.error = "null" /\ a.user # Null} :
            /\ server' = [server EXCEPT !.session = r.user,
                              !.profiles = IF r.user.id \in DOMAIN @ THEN @
                                           ELSE @ @@ [i \in {r.user.id} |->
                                                        ProfileRow(i, << >>)]]
            /\ pending' = (pending \ {p})
                              \cup {[op |-> p.op, at |-> "fetchProfile", user |-> r.user]}
            /\ UNCHANGED <<engine, dailyData, habits, auth, view, localStorage, requests, rendered>>

\* the auth service answers with neither an error nor a user: the call
\* returns true
AuthCallGetsNothing ==
    \E p \in {q \in pending : q.op \in {"login", "signup"} /\ q.at = "auth"} :
        \E r \in {a \in AuthResults : a.error = "null" /\ a.user = Null} :
            /\ pending' = pending \ {p}
            /\ UNCHANGED <<engine, dailyData, habits, auth, server, view, localStorage, requests, rendered>>

\* the profile of a login or signup arrives: the call sets the user and
\* the profile and returns true
AuthCallGetsProfile ==
    \E p \in {q \in pending : q.op \in {"login", "signup"} /\ q.at = "fetchProfile"} :
        \E profile \in FetchedProfiles(p.user.id) :
            /\ auth' = [auth EXCEPT !.user = p.user, !.profile = profile,
                                    !.loading = FALSE, !.error = "null"]
            /\ pending' = pending \ {p}
            /\ UNCHANGED <<engine, dailyData, habits, server, view, localStorage, requests, rendered>>

\* logout up to its await
Logout ==
    /\ MayStart
    /\ auth' = [auth EXCEPT !.loading = TRUE]
    /\ pending' = pending \cup {[op |-> "logout", at |-> "signOut"]}
    /\ UNCHANGED <<engine, dailyData, habits, server, view, localStorage, requests, rendered>>

\* the sign-out is done: the session is gone and logout clears the state
LogoutSettles ==
    \E p \in {q \in pending : q.op = "logout"} :
        /\ server' = [server EXCEPT !.session = Null]
        /\ auth' = [user |-> Null, profile |-> Null, loading |-> FALSE, error |-> "null"]
        /\ pending' = pending \ {p}
        /\ UNCHANGED <<engine, dailyData, habits, view, localStorage, requests, rendered>>

\* the calls in flight after updateProfile(updates) was called: none more
\* when nobody is signed in
updateProfile(updates) ==
    IF auth.user = Null THEN pending
    ELSE pending \cup {[op |-> "updateProfile", at |-> "update",
                        userId |-> auth.user.id, updates |-> updates]}

\* the settings views save a personal context
UpdateProfile ==
    /\ MayStart
    /\ auth.user # Null
    /\ \E context \in Contexts : pending' = updateProfile([personal_context |-> context])
    /\ UNCHANGED <<engine, dailyData, habits, auth, server, view, localStorage, requests, rendered>>

\* the profiles table answers an update with an error
UpdateProfileFails ==
    \E p \in {q \in pending : q.op = "updateProfile"} :
        /\ auth' = [auth EXCEPT !.error = "update failed"]
        /\ pending' = pending \ {p}
        /\ UNCHANGED <<engine, dailyData, habits, server, view, localStorage, requests, rendered>>

\* the profiles table answers an update with the updated row
UpdateProfileSettles ==
    \E p \in {q \in pending : q.op = "updateProfile"} :
        /\ p.userId \in DOMAIN server.profiles
        /\ \E data \in {[server.profiles[p.userId] EXCEPT
                            !.personal_context = p.updates.personal_context]} :
               /\ server' = [server EXCEPT !.profiles[p.userId] = data]
               /\ auth' = [auth EXCEPT !.profile = data]
        /\ pending' = pending \ {p}
        /\ UNCHANGED <<engine, dailyData, habits, view, localStorage, requests, rendered>>

\* handleUserChange up to its await, called with the user of the session
\* when the session is read at mount and on every auth event
HandleUserChange ==
    /\ MayStart
    /\ IF server.session = Null
       THEN /\ auth' = [user |-> Null, profile |-> Null, loading |-> FALSE,
                        error |-> "null"]
            /\ UNCHANGED pending
       ELSE /\ pending' = pending \cup {[op |-> "handleUserChange", at |-> "fetchProfile",
                                          user |-> server.session]}
            /\ UNCHANGED auth
    /\ UNCHANGED <<engine, dailyData, habits, server, view, localStorage, requests, rendered>>

\* the profile handleUserChange asked for arrives
UserChangeSettles ==
    \E p \in {q \in pending : q.op = "handleUserChange"} :
        \E profile \in FetchedProfiles(p.user.id) :
            /\ auth' = [auth EXCEPT !.user = p.user, !.profile = profile,
                                    !.loading = FALSE, !.error = "null"]
            /\ pending' = pending \ {p}
            /\ UNCHANGED <<engine, dailyData, habits, server, view, localStorage, requests, rendered>>

ClearError ==
    /\ auth.error # "null"
    /\ auth' = [auth EXCEPT !.error = "null"]
    /\ UNCHANGED <<engine, dailyData, habits, server, pending, view, localStorage, requests, rendered>>

\* the engine's inputs play no part in the providers
NoEngine ==
    /\ completionDates = << >>
    /\ today = DateStr(2025, 1, 1)
    /\ call = [fn |-> "none"]
    /\ result = "none"
    /\ days = 0

InitAuth ==
    /\ NoEngine
    /\ dailyData = << >>
    /\ habits = << >>
    /\ Constructed

NextAuth ==
    \/ Login
    \/ Signup
    \/ AuthCallFails
    \/ AuthCallGetsUser
    \/ AuthCallGetsNothing
    \/ AuthCallGetsProfile
    \/ Logout
    \/ LogoutSettles
    \/ UpdateProfile
    \/ UpdateProfileFails
    \/ UpdateProfileSettles
    \/ HandleUserChange
    \/ UserChangeSettles
    \/ ClearError

SpecAuth == InitAuth /\ [][NextAuth]_vars

(***************************************************************************)
(* components/AiInsight: the insight panel and its first-time context      *)
(* prompt.  An API key is stored, so the panel is rendered; requests holds *)
(* the personalization of every generateEnhancedInsight call made so far;  *)
(* the habit data and the analytics of a request come from the props.      *)
(***************************************************************************)
SKIPPED_CONTEXT_KEY == "hasSkippedContextPrompt"

\* what the user may type into the prompt
ContextInputs == {<< >>, <<" ">>, <<"g">>, <<" ", "g">>}

\* the number of insight requests of a session
MaxRequests == 3

\* !!profile?.personal_context
hasPersonalContext ==
    /\ auth.profile # Null
    /\ auth.profile.personal_context # << >>

\* localStorage.getItem(SKIPPED_CONTEXT_KEY) === 'true'
hasSkippedPrompt ==
    /\ SKIPPED_CONTEXT_KEY \in DOMAIN localStorage
    /\ localStorage[SKIPPED_CONTEXT_KEY] = "true"

\* the personalization doGenerate reads from the profile of its render;
\* the empty context stands for undefined
personalization ==
    [tone            |-> IF auth.profile # Null THEN auth.profile.ai_tone ELSE "stoic",
     personalContext |-> IF hasPersonalContext THEN auth.profile.personal_context
                         ELSE << >>]

\* doGenerate up to its await, called from a handler that leaves the
\* component state v and the calls inFlight
doGenerate(v, inFlight) ==
    /\ Len(requests) < MaxRequests
    /\ view' = [v EXCEPT !.loading = TRUE, !.error = "null"]
    /\ requests' = Append(requests, [personalization |-> personalization])
    /\ pending' = inFlight \cup {[op |-> "generateEnhancedInsight", at |-> "request"]}

\* a click on generate or refresh; the button is disabled while loading
HandleGenerate ==
    /\ ~view.showContextPrompt
    /\ ~view.loading
    /\ IF view.insight = "null" /\ ~hasPersonalContext /\ ~hasSkippedPrompt
       THEN /\ view' = [view EXCEPT !.showContextPrompt = TRUE]
            /\ UNCHANGED <<requests, pending>>
       ELSE doGenerate(view, pending)
    /\ UNCHANGED <<engine, dailyData, habits, auth, server, localStorage, rendered>>

\* the user types into the prompt
SetContextInput ==
    /\ view.showContextPrompt
    /\ \E text \in ContextInputs : view' = [view EXCEPT !.contextInput = text]
    /\ UNCHANGED <<engine, dailyData, habits, auth, server, pending, localStorage,
                   requests, rendered>>

\* faulty variant: the skip is not remembered
HandleSkipContextForgets ==
    /\ view.showContextPrompt
    /\ doGenerate([view EXCEPT !.showContextPrompt = FALSE], pending)
    /\ UNCHANGED <<engine, dailyData, habits, auth, server, localStorage, rendered>>

\* a click on skip for now
HandleSkipContext ==
    /\ view.showContextPrompt
    /\ localStorage' = [k \in DOMAIN localStorage \cup {SKIPPED_CONTEXT_KEY} |->
                           IF k = SKIPPED_CONTEXT_KEY THEN "true" ELSE localStorage[k]]
    /\ doGenerate([view EXCEPT !.showContextPrompt = FALSE], pending)
    /\ UNCHANGED <<engine, dailyData, habits, auth, server, rendered>>

\* a click on save and get insight
HandleSaveContext ==
    /\ view.showContextPrompt
    /\ doGenerate([view EXCEPT !.showContextPrompt = FALSE],
                  IF trim(view.contextInput) # << >>
                  THEN updateProfile([personal_context |-> trim(view.contextInput)])
                  ELSE pending)
    /\ UNCHANGED <<engine, dailyData, habits, auth, server, localStorage, rendered>>

\* the insight arrives
GenerateSettles ==
    \E p \in {q \in pending : q.op = "generateEnhancedInsight"} :
        /\ view' = [view EXCEPT !.insight = "insight", !.loading = FALSE]
        /\ pending' = pending \ {p}
        /\ UNCHANGED <<engine, dailyData, habits, auth, server, localStorage,
                       requests, rendered>>

\* the insight request fails
GenerateFails ==
    \E p \in {q \in pending : q.op = "generateEnhancedInsight"} :
        /\ view' = [view EXCEPT !.error = "Failed to generate insight",
                                !.loading = FALSE]
        /\ pending' = pending \ {p}
        /\ UNCHANGED <<engine, dailyData, habits, auth, server, localStorage,
                       requests, rendered>>

\* the panel is mounted for a signed-in user whose profile was fetched or
\* not, with or without a personal context, who has or has not skipped
\* the prompt before
InitInsight ==
    /\ NoEngine
    /\ dailyData = << >>
    /\ habits = << >>
    /\ \E u \in {[id |-> "u1"]}, context \in Contexts :
           /\ server = [session |-> u, completions |-> {},
                        profiles |-> [i \in {u.id} |-> ProfileRow(i, context)]]
           /\ auth \in {[user |-> u, profile |-> p, loading |-> FALSE, error |-> "null"] :
                           p \in {Null, ProfileRow(u.id, context)}}
    /\ pending = {}
    /\ view = InitialView
    /\ localStorage \in {<< >>, [k \in {SKIPPED_CONTEXT_KEY} |-> "true"]}
    /\ requests = << >>
    /\ rendered = << >>

NextInsight ==
    \/ HandleGenerate
    \/ SetContextInput
    \/ HandleSkipContext
    \/ HandleSaveContext
    \/ GenerateSettles
    \/ GenerateFails
    \/ UpdateProfileFails
    \/ UpdateProfileSettles

SpecInsight == InitInsight /\ [][NextInsight]_vars

(***************************************************************************)
(* store/AuthContext.tsx, appReducer: the cases that build state.dailyData *)
(* and settings.habits.  A daily record holds the habit values, the tasks  *)
(* of every category, the focus and the reflection; texts are sequences of *)
(* characters.                                                             *)
(***************************************************************************)
MitCategories == {"work", "self", "family"}

\* createEmptyDailyData of ../types: no habit value, no task, empty texts
createEmptyDailyData(date) ==
    [date |-> date, habits |-> << >>, mit |-> [c \in MitCategories |-> << >>],
     focus |-> << >>, reflection |-> << >>]

\* state.dailyData[date] || createEmptyDailyData(date)
DayDataOrEmpty(dd, date) ==
    IF date \in DOMAIN dd THEN dd[date] ELSE createEmptyDailyData(date)

\* { ...f, [key]: value }
Spread(f, key, value) ==
    [k \in DOMAIN f \cup {key} |-> IF k = key THEN value ELSE f[k]]

\* the loop of SET_COMPLETIONS over the dates that remain of the payload
RECURSIVE SetCompletionsLoop(_, _, _)
SetCompletionsLoop(dd, payload, dates) ==
    IF dates = {} THEN dd
    ELSE LET date == CHOOSE d \in dates : TRUE
         IN  SetCompletionsLoop(
                 Spread(dd, date,
                        [DayDataOrEmpty(dd, date) EXCEPT !.habits = payload[date]]),
                 payload, dates \ {date})

SET_COMPLETIONS(dd, payload) == SetCompletionsLoop(dd, payload, DOMAIN payload)

\* dayData.habits[habitId] is truthy
Truthy(habitValues, habitId) == habitId \in DOMAIN habitValues /\ habitValues[habitId]

TOGGLE_HABIT(dd, date, habitId) ==
    LET dayData == DayDataOrEmpty(dd, date)
    IN  Spread(dd, date,
               [dayData EXCEPT !.habits =
                   Spread(dayData.habits, habitId, ~Truthy(dayData.habits, habitId))])

ADD_MIT(dd, date, category, text, firstStep, id) ==
    LET dayData == DayDataOrEmpty(dd, date)
        newItem == [id |-> id, text |-> text, completed |-> FALSE, firstStep |-> firstStep]
    IN  Spread(dd, date,
               [dayData EXCEPT !.mit[category] = Append(dayData.mit[category], newItem)])

UPDATE_MIT(dd, date, category, id, text) ==
    IF date \notin DOMAIN dd THEN dd
    ELSE LET items == dd[date].mit[category]
         IN  [dd EXCEPT ![date].mit[category] =
                 [i \in 1..Len(items) |->
                     IF items[i].id = id THEN [items[i] EXCEPT !.text = text]
                     ELSE items[i]]]

DELETE_MIT(dd, date, category, id) ==
    IF date \notin DOMAIN dd THEN dd
    ELSE LET Other(item) == item.id # id
         IN  [dd EXCEPT ![date].mit[category] = SelectSeq(dd[date].mit[category], Other)]

TOGGLE_MIT(dd, date, category, id) ==
    IF date \notin DOMAIN dd THEN dd
    ELSE LET items == dd[date].mit[category]
         IN  [dd EXCEPT ![date].mit[category] =
                 [i \in 1..Len(items) |->
                     IF items[i].id = id
                     THEN [items[i] EXCEPT !.completed = ~items[i].completed]
                     ELSE items[i]]]

SET_MIT_FIRST_STEP(dd, date, category, id, firstStep) ==
    IF date \notin DOMAIN dd THEN dd
    ELSE LET items == dd[date].mit[category]
         IN  [dd EXCEPT ![date].mit[category] =
                 [i \in 1..Len(items) |->
                     IF items[i].id = id THEN [items[i] EXCEPT !.firstStep = firstStep]
                     ELSE items[i]]]

SET_FOCUS(dd, date, focus) ==
    Spread(dd, date, [DayDataOrEmpty(dd, date) EXCEPT !.focus = focus])

SET_REFLECTION(dd, date, reflection) ==
    Spread(dd, date, [DayDataOrEmpty(dd, date) EXCEPT !.reflection = reflection])

(***************************************************************************)
(* The reducer as a state machine: the views dispatch actions on the state *)
(* that createEmptyState built.                                            *)
(***************************************************************************)
\* the dates the views dispatch on
DispatchDates == {DateStr(2024, 12, 31), DateStr(2025, 1, 1)}

\* the texts of a focus, a reflection, a task or a first step
Words == {<< >>, <<"x">>}

\* the number of tasks a session adds
MaxTasks == 1

\* the ids of the tasks of the records
TaskIds(dd) ==
    UNION {{dd[date].mit[c][i].id : i \in 1..Len(dd[date].mit[c])} :
              <<date, c>> \in (DOMAIN dd) \X MitCategories}

\* generateId(): an id no task of the records has
generateId(dd) == CHOOSE id \in 1..(MaxTasks + 1) : id \notin TaskIds(dd)

DispatchSetHabits ==
    /\ \E list \in {<< >>, <<HabitA>>} : habits' = list
    /\ UNCHANGED <<engine, dailyData, app>>

DispatchSetCompletions ==
    /\ \E payload \in DailyMaps(DispatchDates, HabitMaps({HabitA.id})) \ {<< >>} :
           dailyData' = (SET_COMPLETIONS(dailyData, payload))
    /\ UNCHANGED <<engine, habits, app>>

DispatchToggleHabit ==
    /\ \E date \in DispatchDates :
           dailyData' = (TOGGLE_HABIT(dailyData, date, HabitA.id))
    /\ UNCHANGED <<engine, habits, app>>

DispatchAddMit ==
    /\ Cardinality(TaskIds(dailyData)) < MaxTasks
    /\ \E date \in DispatchDates, category \in MitCategories :
           dailyData' = (ADD_MIT(dailyData, date, category, <<"x">>, << >>,
                              generateId(dailyData)))
    /\ UNCHANGED <<engine, habits, app>>

DispatchUpdateMit ==
    /\ \E date \in DispatchDates, category \in MitCategories, id \in 1..MaxTasks :
           dailyData' = (UPDATE_MIT(dailyData, date, category, id, <<"y">>))
    /\ UNCHANGED <<engine, habits, app>>

DispatchDeleteMit ==
    /\ \E date \in DispatchDates, category \in MitCategories, id \in 1..MaxTasks :
           dailyData' = (DELETE_MIT(dailyData, date, category, id))
    /\ UNCHANGED <<engine, habits, app>>

DispatchToggleMit ==
    /\ \E date \in DispatchDates, category \in MitCategories, id \in 1..MaxTasks :
           dailyData' = (TOGGLE_MIT(dailyData, date, category, id))
    /\ UNCHANGED <<engine, habits, app>>

DispatchSetMitFirstStep ==
    /\ \E date \in DispatchDates, category \in MitCategories, id \in 1..MaxTasks :
           dailyData' = (SET_MIT_FIRST_STEP(dailyData, date, category, id, <<"s">>))
    /\ UNCHANGED <<engine, habits, app>>

DispatchSetFocus ==
    /\ \E date \in DispatchDates, focus \in Words :
           dailyData' = (SET_FOCUS(dailyData, date, focus))
    /\ UNCHANGED <<engine, habits, app>>

DispatchSetReflection ==
    /\ \E date \in DispatchDates, reflection \in Words :
           dailyData' = (SET_REFLECTION(dailyData, date, reflection))
    /\ UNCHANGED <<engine, habits, app>>

\* createEmptyState(): no habits, no daily record
InitReducer ==
    /\ NoEngine
    /\ dailyData = << >>
    /\ habits = << >>
    /\ Constructed

NextReducer ==
    \/ DispatchSetHabits
    \/ DispatchSetCompletions
    \/ DispatchToggleHabit
    \/ DispatchAddMit
    \/ DispatchUpdateMit
    \/ DispatchDeleteMit
    \/ DispatchToggleMit
    \/ DispatchSetMitFirstStep
    \/ DispatchSetFocus
    \/ DispatchSetReflection

SpecReducer == InitReducer /\ [][NextReducer]_vars

(***************************************************************************)
(* store/AuthContext.tsx, AppProvider.toggleHabit: the local toggle, the   *)
(* call of toggleCompletion at the backend and the revert.  rendered is    *)
(* the state.dailyData of the last render, which the toggleHabit callback  *)
(* closes over; requests holds the arguments of every toggleCompletion     *)
(* call; server.completions holds the (date, habit) pairs the backend has  *)
(* a completion for.  A call in flight also notes the local value before   *)
(* its toggle (was) and whether it was the only one to touch its (date,    *)
(* habit) since (alone).                                                   *)
(***************************************************************************)
\* the (date, habit) pairs the user toggles
ToggleCells ==
    {<<DateStr(2024, 12, 31), "a">>, <<DateStr(2025, 1, 1), "a">>,
     <<DateStr(2025, 1, 1), "b">>}

\* the map loadFromSupabase builds from the completions of the backend
completionMap(completions) ==
    [date \in {c[1] : c \in completions} |->
        [id \in {c[2] : c \in {e \in completions : e[1] = date}} |-> TRUE]]

\* the local value of a (date, habit) pair is truthy
LocalValue(dd, date, habitId) ==
    date \in DOMAIN dd /\ Truthy(dd[date].habits, habitId)

\* a call in flight is about the given (date, habit) pair
About(p, date, habitId) == p.op = "toggleHabit" /\ p.date = date /\ p.habitId = habitId

\* the calls in flight, those about the given pair no longer alone
Touched(inFlight, date, habitId) ==
    {IF About(p, date, habitId) THEN [p EXCEPT !.alone = FALSE] ELSE p : p \in inFlight}

\* toggleHabit up to its await
ToggleHabit ==
    /\ MayStart
    /\ Len(requests) < MaxRequests
    /\ \E cell \in ToggleCells :
           LET date         == cell[1]
               habitId      == cell[2]
               dayData      == DayDataOrEmpty(rendered, date)
               currentValue == Truthy(dayData.habits, habitId)
               newValue     == ~currentValue
               n            == CHOOSE k \in 1..MaxPending : \A p \in pending : p.n # k
           IN  /\ dailyData' = TOGGLE_HABIT(dailyData, date, habitId)
               /\ requests' = Append(requests, [habitId |-> habitId, date |-> date,
                                                completed |-> newValue])
               /\ pending' = Touched(pending, date, habitId)
                      \cup {[op |-> "toggleHabit", at |-> "toggleCompletion", n |-> n,
                             date |-> date, habitId |-> habitId, newValue |-> newValue,
                             was |-> LocalValue(dailyData, date, habitId),
                             alone |-> TRUE]}
    /\ UNCHANGED <<engine, habits, auth, server, view, localStorage, rendered>>

\* React renders the provider again: the callbacks close over the new state
Render ==
    /\ rendered # dailyData
    /\ rendered' = dailyData
    /\ UNCHANGED <<engine, dailyData, habits, auth, server, pending, view,
                   localStorage, requests>>

\* toggleCompletion of services/data: the backend stores the value it is given
toggleCompletion(completions, habitId, date, completed) ==
    IF completed THEN completions \cup {<<date, habitId>>}
    ELSE completions \ {<<date, habitId>>}

\* the awaited toggleCompletion resolves: toggleHabit ends
ToggleCompletionSettlesFor(p) ==
    /\ server' = [server EXCEPT !.completions =
                     toggleCompletion(@, p.habitId, p.date, p.newValue)]
    /\ pending' = pending \ {p}
    /\ UNCHANGED <<engine, dailyData, habits, auth, view, localStorage, requests,
                   rendered>>

ToggleCompletionSettles ==
    \E p \in {q \in pending : q.op = "toggleHabit"} : ToggleCompletionSettlesFor(p)

\* faulty variant: no revert
ToggleCompletionFailsKeepsValue(p) ==
    /\ pending' = pending \ {p}
    /\ UNCHANGED <<engine, dailyData, habits, auth, server, view, localStorage,
                   requests, rendered>>

\* toggleCompletion rejects: the catch block toggles the local value again
ToggleCompletionFailsFor(p) ==
    /\ dailyData' = TOGGLE_HABIT(dailyData, p.date, p.habitId)
    /\ pending' = Touched(pending \ {p}, p.date, p.habitId)
    /\ UNCHANGED <<engine, habits, auth, server, view, localStorage, requests,
                   rendered>>

ToggleCompletionFails ==
    \E p \in {q \in pending : q.op = "toggleHabit"} : ToggleCompletionFailsFor(p)

\* the completions the backend holds at first: none, or one
LoadedCompletions == {{}, {<<DateStr(2025, 1, 1), "a">>}}

\* the provider has loaded the completions of the backend and has rendered
InitToggle ==
    /\ NoEngine
    /\ habits = <<HabitA, HabitB>>
    /\ auth = InitialAuthState
    /\ \E completions \in LoadedCompletions :
           /\ server = [session |-> Null, profiles |-> << >>, completions |-> completions]
           /\ dailyData = SET_COMPLETIONS(<< >>, completionMap(completions))
    /\ rendered = dailyData
    /\ pending = {}
    /\ view = InitialView
    /\ localStorage = << >>
    /\ requests = << >>

NextToggle ==
    \/ ToggleHabit
    \/ Render
    \/ ToggleCompletionSettles
    \/ ToggleCompletionFails

SpecToggle == InitToggle /\ [][NextToggle]_vars

(***************************************************************************)
(* Vocabulary of the properties: calendar days as day numbers.             *)
(***************************************************************************)
\* the call that returned the current result
Called(fn) == call.fn = fn

\* the day number of a date string
Day(dateStr) == parseDate(dateStr).days

\* the set of days an array of date strings names
DaySet(dates) == {Day(dates[i]) : i \in 1..Len(dates)}

\* the number of consecutive days of S counted backward from day anchor,
\* stopping at the first day that is not in S
ConsecutiveBack(S, anchor) ==
    CHOOSE k \in 0..Cardinality(S) :
        /\ \A i \in 0..(k - 1) : (anchor - i) \in S
        /\ (anchor - k) \notin S

\* the length of the longest run of consecutive days of S
LongestRun(S) ==
    LET Run(k) == k = 0 \/ \E d \in S : \A i \in 0..(k - 1) : (d + i) \in S
    IN  CHOOSE k \in 0..Cardinality(S) :
            Run(k) /\ \A j \in (k + 1)..Cardinality(S) : ~Run(j)

\* the latest day of a non-empty set of days
LatestDay(S) == CHOOSE d \in S : \A e \in S : e <= d

\* the array with one more copy of its i-th date put after position p
WithCopy(dates, i, p) ==
    SubSeq(dates, 1, p) \o <<dates[i]>> \o SubSeq(dates, p + 1, Len(dates))

\* the entries of an array that lie on days lo..hi
EntriesWithin(dates, lo, hi) ==
    {i \in 1..Len(dates) : lo <= Day(dates[i]) /\ Day(dates[i]) <= hi}

\* leap years of the Gregorian calendar
IsLeapYear(y) == (y % 4 = 0 /\ y % 100 # 0) \/ y % 400 = 0

\* the number of days of month m (1..12) of year y
DaysInMonth(y, m) ==
    IF m = 2 THEN (IF IsLeapYear(y) THEN 29 ELSE 28)
    ELSE IF m \in {4, 6, 9, 11} THEN 30 ELSE 31

\* the year, month (1..12) and day of month a date string spells
YearOf(dateStr) == dateStr[1]
MonthOf(dateStr) == dateStr[2]
DayOfMonth(dateStr) == dateStr[3]

\* the day of the year (1..366) of a date string
DayOfYear(dateStr) == Day(dateStr) - Day(DateStr(YearOf(dateStr), 1, 1)) + 1

(***************************************************************************)
(* C1..C10: streaks, period statistics and the month calendar.             *)
(***************************************************************************)
\* C1: for every collection of completion dates and every today,
\* calculateCurrentStreak returns the number of consecutive days, counted
\* backward from today if today has a completion and otherwise from
\* today-1, that each have a completion; a repeated date counts once.
C1_CurrentStreakCountsBack ==
    Called("calculateCurrentStreak") =>
        LET S == DaySet(completionDates)
            T == Day(today)
        IN  result = ConsecutiveBack(S, IF T \in S THEN T ELSE T - 1)

\* C2: when the latest completion date of a non-empty collection is neither
\* today nor today-1, calculateCurrentStreak returns 0 whatever older dates
\* there are; a single date gives 1 if it is today or yesterday, else 0.
C2_StaleLatestGivesZero ==
    (Called("calculateCurrentStreak") /\ Len(completionDates) > 0) =>
        LET S      == DaySet(completionDates)
            T      == Day(today)
            recent == LatestDay(S) \in {T, T - 1}
        IN  /\ ~recent => result = 0
            /\ Len(completionDates) = 1 => result = (IF recent THEN 1 ELSE 0)

\* C2 happens: the latest completion is two days old, older ones precede it
\* without a gap, and the streak returned is 0
C2_Witness ==
    /\ Called("calculateCurrentStreak")
    /\ Len(completionDates) >= 2
    /\ LatestDay(DaySet(completionDates)) = Day(today) - 2
    /\ (Day(today) - 3) \in DaySet(completionDates)
    /\ result = 0

\* C3: calculateLongestStreak returns the length of the longest run of
\* consecutive calendar days all present in the collection, in any order:
\* 0 for the empty collection and at least 1 otherwise.
C3_LongestStreakIsLongestRun ==
    Called("calculateLongestStreak") =>
        /\ result = LongestRun(DaySet(completionDates))
        /\ Len(completionDates) = 0 => result = 0
        /\ Len(completionDates) > 0 => result >= 1

\* C3 happens: an array that is not in ascending order holds a run of two
\* days and one isolated later date, and 2 is returned
C3_Witness ==
    /\ Called("calculateLongestStreak")
    /\ Len(completionDates) = 3
    /\ StrLess(completionDates[3], completionDates[1])
    /\ DaySet(completionDates) = {Day(today) - 3, Day(today) - 2, Day(today)}
    /\ result = 2

\* C4: adding one more copy of a date already in the collection, anywhere in
\* the array, changes neither the longest nor the current streak.
C4_DuplicatesChangeNoStreak ==
    Called("calculateHabitStats") =>
        \A i \in 1..Len(completionDates), p \in 0..Len(completionDates) :
            LET more == WithCopy(completionDates, i, p)
            IN  /\ calculateLongestStreak(more) = result.longestStreak
                /\ calculateCurrentStreak(more, today) = result.currentStreak

\* C4 happens: three consecutive days up to today, with streaks of 3
C4_Witness ==
    /\ Called("calculateHabitStats")
    /\ Len(completionDates) = 3
    /\ result.longestStreak = 3
    /\ result.currentStreak = 3

\* C5: for a window with periodStart <= periodEnd, calculatePeriodStats
\* returns 0 <= completed <= total, total the number of days of the window,
\* completed the number of completion dates inside the window and
\* percentage = round(completed / total * 100).
C5_PeriodStatsWithinWindow ==
    (Called("calculatePeriodStats") /\ StrLeq(call.periodStart, call.periodEnd)) =>
        LET lo == Day(call.periodStart)
            hi == Day(call.periodEnd)
        IN  /\ 0 <= result.completed
            /\ result.completed <= result.total
            /\ result.total = hi - lo + 1
            /\ result.completed = Cardinality(EntriesWithin(completionDates, lo, hi))
            /\ result.percentage = RoundPercent(result.completed, result.total)

\* C6: for a window whose end is before its start, calculatePeriodStats
\* returns completed = 0, total = 0 and percentage = 0.
C6_InvertedWindowGivesZero ==
    (Called("calculatePeriodStats") /\ StrLess(call.periodEnd, call.periodStart)) =>
        /\ result.completed = 0
        /\ result.total = 0
        /\ result.percentage = 0

\* C7: every day strictly after today in the output of generateMonthCalendar
\* has isFuture true and completed false, whatever completion dates are given.
C7_FutureDaysNotCompleted ==
    Called("generateMonthCalendar") =>
        \A i \in 1..Len(result) :
            Day(result[i].date) > Day(today) =>
                result[i].isFuture /\ ~result[i].completed

\* C8: generateMonthCalendar returns exactly one entry per day of the
\* reference date's month, in ascending order from day 1 to the last day.
C8_OneEntryPerDayOfMonth ==
    Called("generateMonthCalendar") =>
        /\ Len(result) = DaysInMonth(YearOf(today), MonthOf(today))
        /\ \A i \in 1..Len(result) :
               /\ YearOf(result[i].date) = YearOf(today)
               /\ MonthOf(result[i].date) = MonthOf(today)
               /\ DayOfMonth(result[i].date) = i

\* C8 happens: the calendar of February of a leap year has 29 entries
C8_Witness ==
    /\ Called("generateMonthCalendar")
    /\ MonthOf(today) = 2
    /\ IsLeapYear(YearOf(today))
    /\ Len(result) = 29

WindowDays(n) == (Day(today) - (n - 1))..Day(today)

\* the dates on days of W whose record holds an explicit value for habit id
ObservedDays(id, W) ==
    {date \in DOMAIN dailyData : Day(date) \in W /\ id \in DOMAIN dailyData[date].habits}

\* the dates on days of W whose record holds the value true for habit id
DoneDays(id, W) == {date \in ObservedDays(id, W) : dailyData[date].habits[id]}

\* the dates of S that fall on the k-th weekday of Sun, Mon, ..., Sat
FallingOn(S, k) == {date \in S : (Day(date) + 4) % 7 = k - 1}

\* the days of W that fall on the k-th weekday of Sun, Mon, ..., Sat
OnWeekday(W, k) == {d \in W : (d + 4) % 7 = k - 1}

\* p is n / d in percent rounded to the nearest integer, halves upward
IsNearestPercent(p, n, d) == 200 * n - d < 2 * d * p /\ 2 * d * p <= 200 * n + d

\* the rate in percent of c completed days among o observed ones
PercentOf(c, o) ==
    IF o = 0 THEN 0
    ELSE CHOOSE p \in {(100 * c) \div o, (100 * c) \div o + 1} :
             IsNearestPercent(p, c, o)

HabitPairs == {p \in (1..Len(habits)) \X (1..Len(habits)) : p[1] < p[2]}

\* for every position of the habit list, the window days its habit was done
DoneInWindow == [i \in 1..Len(habits) |-> DoneDays(habits[i].id, WindowDays(days))]

\* the correlation of every pair of which a habit was done on a window
\* day, round(bothDone / eitherDone * 100), done[i] being the window days
\* the i-th habit was done
CorrelationsOf(done) ==
    [p \in {q \in HabitPairs : done[q[1]] \cup done[q[2]] # {}} |->
        PercentOf(Cardinality(done[p[1]] \cap done[p[2]]),
                  Cardinality(done[p[1]] \cup done[p[2]]))]

\* the correlations of the pairs of the habit list on the window
Correlations == CHOOSE corr \in {CorrelationsOf(d) : d \in {DoneInWindow}} : TRUE

\* entry e of a result names pair p
Names(e, p) == e.habitA = habits[p[1]].label /\ e.habitB = habits[p[2]].label

\* C12: computeCorrelations returns at most 5 entries, each with a
\* correlation of at least 50, in descending order of correlation, and no
\* qualifying pair that is left out has a correlation strictly greater
\* than that of a returned entry.
C12_TopFiveCorrelations ==
    Called("computeCorrelations") =>
        /\ Len(result) <= 5
        /\ \A k \in 1..Len(result) : result[k].correlation >= 50
        /\ \A k \in 1..(Len(result) - 1) :
               result[k].correlation >= result[k + 1].correlation
        /\ \A corr \in {Correlations} :
               \A p \in DOMAIN corr :
                   (corr[p] >= 50 /\ \A k \in 1..Len(result) : ~Names(result[k], p)) =>
                       \A k \in 1..Len(result) : corr[p] <= result[k].correlation

\* C12 happens: six pairs qualify, five are returned with correlations from
\* 100 down to 50, and the pair left out has correlation 50
C12_Witness ==
    /\ Called("computeCorrelations")
    /\ \E corr \in {Correlations} :
           \A p \in HabitPairs : p \in DOMAIN corr /\ corr[p] >= 50
    /\ Len(result) = 5
    /\ result[1].correlation = 100
    /\ result[5].correlation = 50

\* the habits of pair p were both completed on every day of the window,
\* done[i] being the window days the i-th habit was done
TogetherEveryDay(done, p) ==
    /\ done[p[1]] = done[p[2]]
    /\ Cardinality(done[p[1]]) = days

\* every entry of the result carries the correlation of the pair it
\* names, and no two entries name the same pair
EntriesArePairCorrelations(corr) ==
    /\ \A k \in 1..Len(result) :
           \E p \in DOMAIN corr :
               Names(result[k], p) /\ result[k].correlation = corr[p]
    /\ \A k, l \in 1..Len(result) :
           (result[k].habitA = result[l].habitA /\ result[k].habitB = result[l].habitB)
               => k = l

\* C13 as stated: the correlation of every pair is round(bothDone /
\* eitherDone * 100), each pair is considered once, and two habits
\* completed together on every day of a 10-day window get correlation 100
\* and are the first entry of the result.
C13_PerfectPairIsFirst ==
    Called("computeCorrelations") =>
        \A done \in {DoneInWindow} : \A corr \in {CorrelationsOf(done)} :
            /\ EntriesArePairCorrelations(corr)
            /\ \A p \in HabitPairs :
                   (days = 10 /\ TogetherEveryDay(done, p)) =>
                       /\ Len(result) >= 1
                       /\ Names(result[1], p)
                       /\ result[1].correlation = 100

\* C13 amended: the correlation of every pair is round(bothDone /
\* eitherDone * 100), each pair is considered once, and two habits
\* completed together on every day of the window get correlation 100 and
\* stand among the leading entries of correlation 100: the first entry has
\* correlation 100, no entry of lower correlation precedes the pair, the
\* pair is first when no other pair reaches 100, and it is left out only
\* when five other pairs with correlation 100 fill the result.
C13_PerfectPairLeads ==
    Called("computeCorrelations") =>
        \A done \in {DoneInWindow} : \A corr \in {CorrelationsOf(done)} :
            /\ EntriesArePairCorrelations(corr)
            /\ \A p \in HabitPairs :
                   TogetherEveryDay(done, p) =>
                       /\ corr[p] = 100
                       /\ Len(result) >= 1
                       /\ result[1].correlation = 100
                       /\ \A k \in 1..Len(result) :
                              Names(result[k], p) =>
                                  \A j \in 1..(k - 1) : result[j].correlation = 100
                       /\ (\A q \in DOMAIN corr \ {p} : corr[q] < 100)
                              => Names(result[1], p)
                       /\ (\A k \in 1..Len(result) : ~Names(result[k], p)) =>
                              /\ Len(result) = 5
                              /\ \A k \in 1..5 : result[k].correlation = 100

\* C13 happens: on a 10-day window the first two habits were completed
\* together every day, a third one too, and the first pair leads the result
C13_Witness ==
    /\ Called("computeCorrelations")
    /\ days = 10
    /\ TogetherEveryDay(DoneInWindow, <<1, 2>>)
    /\ Len(result) = 3
    /\ Names(result[1], <<1, 2>>)
    /\ result[1].correlation = 100

\* the rate of habit id over the days of W, in percent
RateOver(id, W) ==
    PercentOf(Cardinality(DoneDays(id, W)), Cardinality(ObservedDays(id, W)))

\* recent rate minus previous rate: today-6..today against today-13..today-7
TrendDiff(id) ==
    RateOver(id, (Day(today) - 6)..Day(today))
    - RateOver(id, (Day(today) - 13)..(Day(today) - 7))

\* C14: getTrend compares the rate of the 7 days today-6..today with the
\* rate of the 7 days today-13..today-7 and returns "up" exactly when the
\* difference is above 10 points, "down" exactly when it is below -10,
\* and "stable" otherwise, a difference of exactly 10 or -10 included.
C14_TrendThresholds ==
    Called("getTrend") =>
        \A diff \in {TrendDiff(call.habitId)} :
            /\ result \in {"up", "down", "stable"}
            /\ result = "up" <=> diff > 10
            /\ result = "down" <=> diff < -10
            /\ diff \in {10, -10} => result = "stable"

\* C14 happens: the recent rate is 60, the previous one 50, and the trend
\* returned is "stable"
C14_Witness ==
    /\ Called("getTrend")
    /\ RateOver("a", (Day(today) - 6)..Day(today)) = 60
    /\ TrendDiff("a") = 10
    /\ result = "stable"

\* the (habit position, date) cells of days of W that hold an explicit value
ObservedCells(W) ==
    {c \in (1..Len(habits)) \X DOMAIN dailyData :
        Day(c[2]) \in W /\ habits[c[1]].id \in DOMAIN dailyData[c[2]].habits}

\* the cells of days of W that hold the value true
DoneCells(W) == {c \in ObservedCells(W) : dailyData[c[2]].habits[habits[c[1]].id]}

\* for the k-th weekday of Sun..Sat, the completion rate of all habits of
\* the list combined on the window days falling on it
WeekdayRates ==
    [k \in 1..7 |->
        LET W == OnWeekday(WindowDays(days), k)
        IN  PercentOf(Cardinality(DoneCells(W)), Cardinality(ObservedCells(W)))]

\* a is an integer nearest to n / d
IsNearestInteger(a, n, d) == 2 * n - d <= 2 * d * a /\ 2 * d * a <= 2 * n + d

\* C15: computeDayPatterns returns as weekdayAvg the mean of the five
\* rates of Mon..Fri and as weekendAvg the mean of the two rates of Sat and
\* Sun, each rounded to the nearest integer, a weekday's rate being the
\* completion rate of all habits combined on the window days of that
\* weekday.
C15_WeekdayAndWeekendMeans ==
    Called("computeDayPatterns") =>
        \A r \in {WeekdayRates} :
            /\ IsNearestInteger(result.weekdayAvg, r[2] + r[3] + r[4] + r[5] + r[6], 5)
            /\ IsNearestInteger(result.weekendAvg, r[7] + r[1], 2)

\* C15 happens: neither mean is a whole number, so both were rounded
C15_Witness ==
    /\ Called("computeDayPatterns")
    /\ \E r \in {WeekdayRates} :
           /\ (r[2] + r[3] + r[4] + r[5] + r[6]) % 5 # 0
           /\ (r[7] + r[1]) % 2 = 1
    /\ result.weekdayAvg > 0
    /\ result.weekendAvg > 0

\* the position of a weekday name in Sun, Mon, ..., Sat
DayIndex(name) == CHOOSE k \in 1..7 : DAY_NAMES[k] = name

\* C16 as stated: bestDay is a weekday of highest combined rate and
\* worstDay one of lowest rate, and of several weekdays that tie the one
\* that comes first in Sun, Mon, ..., Sat is returned, for bestDay and for
\* worstDay alike.
C16_FirstOfTiedDays ==
    Called("computeDayPatterns") =>
        \A r \in {WeekdayRates}, best \in {DayIndex(result.bestDay)},
           worst \in {DayIndex(result.worstDay)} :
            /\ \A k \in 1..7 : r[k] <= r[best] /\ r[worst] <= r[k]
            /\ \A k \in 1..7 : r[k] = r[best] => best <= k
            /\ \A k \in 1..7 : r[k] = r[worst] => worst <= k

\* C16 amended: bestDay is a weekday of highest combined rate and worstDay
\* one of lowest rate; of several weekdays that tie for highest the one
\* that comes first in Sun, Mon, ..., Sat is returned as bestDay, and of
\* several that tie for lowest the one that comes last in that list is
\* returned as worstDay.
C16_FirstBestLastWorst ==
    Called("computeDayPatterns") =>
        \A r \in {WeekdayRates}, best \in {DayIndex(result.bestDay)},
           worst \in {DayIndex(result.worstDay)} :
            /\ \A k \in 1..7 : r[k] <= r[best] /\ r[worst] <= r[k]
            /\ \A k \in 1..7 : r[k] = r[best] => best <= k
            /\ \A k \in 1..7 : r[k] = r[worst] => k <= worst

\* C16 happens: Mon and Tue tie for the highest rate and Mon is returned
\* as bestDay; Sun and Sat are among the days that tie for the lowest and
\* Sat is returned as worstDay
C16_Witness ==
    /\ Called("computeDayPatterns")
    /\ \E r \in {WeekdayRates} : r[2] = 100 /\ r[3] = 100 /\ r[1] = 0 /\ r[7] = 0
    /\ result.bestDay = "Mon"
    /\ result.worstDay = "Sat"

\* a text cut to its first 100 characters and the ellipsis marker when it
\* is longer than 100 characters
Excerpt(text) ==
    IF Len(text) > 100 THEN SubSeq(text, 1, 100) \o <<".", ".", ".">> ELSE text

\* the days k = 1..7 (today, today-1, ..., today-6), most recent first,
\* whose record has a reflection that is not empty after trimming
ReflectingDays ==
    LET date(k) == addDays(today, 0 - (k - 1))
        Keep(k) == /\ date(k) \in DOMAIN dailyData
                   /\ trim(dailyData[date(k)].reflection) # << >>
    IN  SelectSeq([k \in 1..7 |-> k], Keep)

\* the reflection of day k = 1..7
ReflectionOf(k) == dailyData[addDays(today, 0 - (k - 1))].reflection

\* C17 as stated: getRecentReflections returns, most recent day first, one
\* entry for each of the 7 days today..today-6 whose reflection is not
\* empty after trimming, and nothing else; each entry is the reflection
\* with the surrounding whitespace trimmed, cut to its first 100
\* characters and "..." when the trimmed text is longer than 100
\* characters.
C17_TrimmedExcerpts ==
    Called("getRecentReflections") =>
        \A kept \in {ReflectingDays} :
            /\ Len(result) = Len(kept)
            /\ \A j \in 1..Len(kept) :
                   result[j] = Excerpt(trim(ReflectionOf(kept[j])))

\* C17 amended: getRecentReflections returns, most recent day first, one
\* entry for each of the 7 days today..today-6 whose reflection is not
\* empty after trimming, and nothing else; each entry is the reflection
\* as stored, surrounding whitespace included, cut to its first 100
\* characters and "..." when the stored text is longer than 100
\* characters.
C17_StoredExcerpts ==
    Called("getRecentReflections") =>
        \A kept \in {ReflectingDays} :
            /\ Len(result) = Len(kept)
            /\ \A j \in 1..Len(kept) :
                   result[j] = Excerpt(ReflectionOf(kept[j]))

\* C17 happens: today's reflection is blank and skipped; an older one, a
\* space followed by 100 characters, is returned as its first 100
\* characters, the space included, and "..."
C17_Witness ==
    /\ Called("getRecentReflections")
    /\ today \in DOMAIN dailyData
    /\ dailyData[today].reflection = <<" ">>
    /\ Len(result) = 1
    /\ result[1] = <<" ">> \o Text(99) \o <<".", ".", ".">>

\* the days of the window on which habit id was completed
DoneDayNumbers(id) == {Day(date) : date \in DoneDays(id, WindowDays(days))}

\* C18: the bestStreak computeHabitAnalytics reports for a habit is the
\* length of the longest run of consecutive days inside the window
\* [today - (N - 1), today] on which the habit was completed; it never
\* exceeds N, a day without record or without the value true ends the
\* run, and completions before the window are not counted.
C18_BestStreakInsideWindow ==
    Called("computeHabitAnalytics") =>
        \A i \in 1..Len(habits) :
            /\ result[i].bestStreak = LongestRun(DoneDayNumbers(habits[i].id))
            /\ result[i].bestStreak <= days

\* C18 happens: the first habit was completed on the day before a 3-day
\* window, on its first and on its last day but not on its middle day,
\* and the best streak is 1
C18_Witness ==
    /\ Called("computeHabitAnalytics")
    /\ days = 3
    /\ IsDone(dailyData, addDays(today, -3), "a")
    /\ IsDone(dailyData, addDays(today, -2), "a")
    /\ ~IsDone(dailyData, addDays(today, -1), "a")
    /\ IsDone(dailyData, today, "a")
    /\ result[1].bestStreak = 1

\* the records of the days of the window
WindowRecords ==
    [date \in {d \in DOMAIN dailyData : Day(d) \in WindowDays(days)} |-> dailyData[date]]

\* maps that agree with dailyData on every date of the window: the day
\* before the window has no record, or any record
AgreeingMaps ==
    {WindowRecords @@ b :
        b \in {<< >>} \cup {[d \in {addDays(today, 0 - days)} |-> r] :
                              r \in DayRecords(HabitIds(habits))}}

\* every day, inside the window or before it, on which habit id was completed
AllDoneDayNumbers(id) ==
    {Day(date) : date \in {d \in DOMAIN dailyData :
                               id \in DOMAIN dailyData[d].habits /\ dailyData[d].habits[id]}}

\* C19 as stated: every sub-metric of computeHabitAnalytics is computed
\* against the window [today - (N - 1), today]: two maps that agree on
\* every date of the window give equal results.
C19_WindowDecidesAllMetrics ==
    Called("computeHabitAnalytics") =>
        \A other \in AgreeingMaps :
            computeHabitAnalytics(other, habits, days, today) = result

\* C19 amended: completionRate, dayOfWeekRates and bestStreak are computed
\* against the window: two maps that agree on every date of the window
\* give them equal values.  currentStreak and trend are not bound to the
\* window: currentStreak counts the completed days back from today (from
\* yesterday if today is not completed) as far as the run goes, and trend
\* compares today-6..today with today-13..today-7, whatever N is.
C19_WindowDecidesRatesAndBestStreak ==
    Called("computeHabitAnalytics") =>
        /\ \A other \in AgreeingMaps :
               \A r \in {computeHabitAnalytics(other, habits, days, today)} :
                   \A i \in 1..Len(habits) :
                       /\ r[i].name = result[i].name
                       /\ r[i].completionRate = result[i].completionRate
                       /\ r[i].dayOfWeekRates = result[i].dayOfWeekRates
                       /\ r[i].bestStreak = result[i].bestStreak
        /\ \A i \in 1..Len(habits) :
               \A S \in {AllDoneDayNumbers(habits[i].id)}, diff \in {TrendDiff(habits[i].id)} :
                   /\ result[i].currentStreak =
                          ConsecutiveBack(S, IF Day(today) \in S THEN Day(today)
                                             ELSE Day(today) - 1)
                   /\ result[i].trend =
                          (IF diff > 10 THEN "up" ELSE IF diff < -10 THEN "down"
                           ELSE "stable")

\* C19 happens: the habit was completed on every day of a 2-day window and
\* on the day before it, and the current streak is 3 while the best
\* streak is 2
C19_Witness ==
    /\ Called("computeHabitAnalytics")
    /\ days = 2
    /\ IsDone(dailyData, addDays(today, -2), "a")
    /\ result[1].currentStreak = 3
    /\ result[1].bestStreak = 2

\* the dates of the window that have no record
MissingDates == {d \in DatesBack(today, days - 1) : d \notin DOMAIN dailyData}

\* the records, every date of the window without record being given a
\* record that holds no habit value and no reflection
WithEmptyRecords ==
    [d \in MissingDates |-> [habits |-> << >>, reflection |-> << >>]] @@ dailyData

\* C20: a date of the window without record is no data and no error:
\* computeHistoricalAnalytics returns its result, the same as if the date
\* had a record without habit values and without reflection; the rates,
\* the pair correlations and the weekday rates behind the day patterns
\* are tallied over the recorded dates only; the date counts as not
\* completed, so that it ends the best-streak run and the current-streak
\* run; no reflection comes from it; a window without any record gives
\* rates and streaks of 0 and no correlation and no reflection.
C20_MissingRecordIsNoData ==
    Called("computeHistoricalAnalytics") =>
        /\ MissingDates # {} =>
               result = computeHistoricalAnalytics(WithEmptyRecords, habits, days, today)
        /\ \A i \in 1..Len(habits) :
               \A observed \in {ObservedDays(habits[i].id, WindowDays(days))},
                  completed \in {DoneDays(habits[i].id, WindowDays(days))},
                  S \in {AllDoneDayNumbers(habits[i].id)} :
                   /\ result.habits[i].completionRate =
                          PercentOf(Cardinality(completed), Cardinality(observed))
                   /\ result.habits[i].bestStreak =
                          LongestRun({Day(date) : date \in completed})
                   /\ result.habits[i].currentStreak =
                          ConsecutiveBack(S, IF Day(today) \in S THEN Day(today)
                                             ELSE Day(today) - 1)
        /\ \A corr \in {Correlations} :
               \A k \in 1..Len(result.correlations) :
                   \E p \in DOMAIN corr :
                       /\ Names(result.correlations[k], p)
                       /\ result.correlations[k].correlation = corr[p]
        /\ \A r \in {WeekdayRates} :
               /\ IsNearestInteger(result.dayPatterns.weekdayAvg,
                                    r[2] + r[3] + r[4] + r[5] + r[6], 5)
               /\ IsNearestInteger(result.dayPatterns.weekendAvg, r[7] + r[1], 2)
               /\ \A k \in 1..7 :
                      /\ r[DayIndex(result.dayPatterns.bestDay)] >= r[k]
                      /\ r[DayIndex(result.dayPatterns.worstDay)] <= r[k]
        /\ \A kept \in {ReflectingDays} :
               /\ Len(result.recentReflections) = Len(kept)
               /\ \A j \in 1..Len(kept) :
                      addDays(today, 0 - (kept[j] - 1)) \notin MissingDates
        /\ MissingDates = DatesBack(today, days - 1) =>
               /\ \A i \in 1..Len(habits) :
                      /\ result.habits[i].completionRate = 0
                      /\ result.habits[i].bestStreak = 0
                      /\ result.habits[i].currentStreak = 0
               /\ result.correlations = << >>
               /\ result.recentReflections = << >>
               /\ result.dayPatterns.weekdayAvg = 0
               /\ result.dayPatterns.weekendAvg = 0

\* C20 happens: the middle day of a 3-day window has no record, both
\* habits were completed on the two other days, and the result has rates
\* of 100, best and current streaks of 1 and the pair with correlation 100
C20_Witness ==
    /\ Called("computeHistoricalAnalytics")
    /\ days = 3
    /\ MissingDates = {addDays(today, -1)}
    /\ \A id \in {"a", "b"} :
           IsDone(dailyData, today, id) /\ IsDone(dailyData, addDays(today, -2), id)
    /\ \A i \in 1..2 :
           /\ result.habits[i].completionRate = 100
           /\ result.habits[i].bestStreak = 1
           /\ result.habits[i].currentStreak = 1
    /\ Len(result.correlations) = 1
    /\ result.correlations[1].correlation = 100

(***************************************************************************)
(* The three current-streak implementations on the same completions:       *)
(* getCurrentStreak of utils/analytics.ts, getHabitStreak of the store and *)
(* calculateCurrentStreak of utils/habitStats.ts.                          *)
(***************************************************************************)
\* the while loop of getHabitStreak
RECURSIVE HabitStreakWalk(_, _, _, _)
HabitStreakWalk(dd, habitId, currentDate, streak) ==
    IF currentDate \in DOMAIN dd /\ Truthy(dd[currentDate].habits, habitId)
    THEN HabitStreakWalk(dd, habitId, addDays(currentDate, -1), streak + 1)
    ELSE streak

getHabitStreak(dd, habitId, fromDate) ==
    HabitStreakWalk(dd, habitId,
        IF ~(fromDate \in DOMAIN dd /\ Truthy(dd[fromDate].habits, habitId))
        THEN addDays(fromDate, -1) ELSE fromDate,
        0)

\* the dates of a set as an array, earliest first
RECURSIVE DatesOf(_)
DatesOf(S) ==
    IF S = {} THEN << >>
    ELSE LET first == CHOOSE d \in S : \A e \in S : StrLeq(d, e)
         IN  <<first>> \o DatesOf(S \ {first})

\* the dates on which the habit's value is true, as an array
TrueDates(dd, habitId) ==
    DatesOf({date \in DOMAIN dd : Truthy(dd[date].habits, habitId)})

\* one habit with any values on the dates near the reference date, the day
\* after it included, and the array of the dates on which it is done
InitStreaks ==
    /\ today \in FromDates
    /\ habits = <<HabitA>>
    /\ dailyData \in DailyMaps(NearDates(today), DayRecords({"a"}) \ ReflectionRecords)
    /\ completionDates = TrueDates(dailyData, "a")
    /\ days = 0
    /\ call = [fn |-> "none"]
    /\ result = "none"
    /\ Constructed

GetCurrentStreak ==
    /\ Idle
    /\ Returns([fn |-> "getCurrentStreak"], getCurrentStreak(dailyData, "a", today))

GetHabitStreak ==
    /\ Idle
    /\ Returns([fn |-> "getHabitStreak"], getHabitStreak(dailyData, "a", today))

NextStreaks ==
    \/ GetCurrentStreak
    \/ GetHabitStreak
    \/ CalculateCurrentStreak

SpecStreaks == InitStreaks /\ [][NextStreaks]_vars

(***************************************************************************)
(* C21..C30: orphaned ids, the insight prompt, the reducer, the toggles    *)
(* and the auth provider.                                                  *)
(***************************************************************************)
\* the (date, id) entries of the records whose id is not in the habit list
OrphanedEntries ==
    UNION {{<<date, id>> : id \in DOMAIN dailyData[date].habits \ HabitIds(habits)} :
              date \in DOMAIN dailyData}

\* the records with the orphaned entries removed
WithoutOrphans ==
    [date \in DOMAIN dailyData |->
        [dailyData[date] EXCEPT !.habits =
            [id \in DOMAIN dailyData[date].habits \cap HabitIds(habits) |->
                dailyData[date].habits[id]]]]

\* C21: values recorded for habit ids that are not in the habit list are
\* harmless: computeHistoricalAnalytics returns its result, with one
\* HabitAnalytics entry per habit of the list in list order, and the whole
\* result equals the one computed from the records without the orphaned
\* entries.
C21_OrphanedIdsAreIgnored ==
    Called("computeHistoricalAnalytics") =>
        /\ Len(result.habits) = Len(habits)
        /\ \A i \in 1..Len(habits) : result.habits[i].name = habits[i].label
        /\ OrphanedEntries # {} =>
               result = computeHistoricalAnalytics(WithoutOrphans, habits, days, today)

\* C21 happens: today's record holds true for the orphaned id and false
\* for both habits of the list, and their rates are 0
C21_Witness ==
    /\ Called("computeHistoricalAnalytics")
    /\ <<today, HabitC.id>> \in OrphanedEntries
    /\ HasValue(dailyData, today, "a") /\ ~IsDone(dailyData, today, "a")
    /\ Len(result.habits) = 2
    /\ result.habits[1].completionRate = 0
    /\ result.dayPatterns.weekdayAvg = 0

\* the personal context the most recent insight request carries
LastPersonalContext(reqs) == reqs[Len(reqs)].personalization.personalContext

\* C22: when the user has entered text that is not blank in the context
\* prompt and clicks save and get insight, the trimmed text is sent to the
\* profile, and the insight request this click issues carries that text
\* as the personal context of its personalization.
C22_SavedContextInRequest ==
    [][(HandleSaveContext /\ trim(view.contextInput) # << >>) =>
          /\ \E p \in pending' :
                 /\ p.op = "updateProfile"
                 /\ p.updates.personal_context = trim(view.contextInput)
          /\ Len(requests') = Len(requests) + 1
          /\ LastPersonalContext(requests') = trim(view.contextInput)]_vars

\* nothing generated yet, no personal context and the prompt never skipped
FirstTime == view.insight = "null" /\ ~hasPersonalContext /\ ~hasSkippedPrompt

\* C23: a click on generate while nothing was generated yet, the profile
\* has no personal context and the skip flag is not set issues no insight
\* request and shows the context prompt; skip and save each close the
\* prompt and issue exactly one insight request; a skip sets the stored
\* flag, the flag stays set, and while it is set no click on generate
\* shows the prompt.
C23_PromptBeforeFirstInsight ==
    [][/\ (HandleGenerate /\ FirstTime) =>
              (requests' = requests /\ view'.showContextPrompt)
       /\ (HandleSkipContext \/ HandleSaveContext) =>
              (~view'.showContextPrompt /\ Len(requests') = Len(requests) + 1)
       /\ HandleSkipContext => hasSkippedPrompt'
       /\ hasSkippedPrompt =>
              /\ hasSkippedPrompt'
              /\ HandleGenerate =>
                     (~view'.showContextPrompt /\ Len(requests') = Len(requests) + 1)]_vars

\* C23 happens: the prompt was shown, blank text typed and the prompt
\* skipped; the insight failed to arrive, and a later click on generate
\* issued a second request without showing the prompt
C23_Witness ==
    /\ hasSkippedPrompt
    /\ view.contextInput = <<" ">>
    /\ view.insight = "null"
    /\ ~hasPersonalContext
    /\ Len(requests) = 2
    /\ ~view.showContextPrompt

\* a daily record shows activity: a habit completed, a reflection, a
\* focus or a task
HasActivity(record) ==
    \/ \E id \in DOMAIN record.habits : record.habits[id]
    \/ record.reflection # << >>
    \/ record.focus # << >>
    \/ \E category \in MitCategories : record.mit[category] # << >>

\* C24: in every state the reducer reaches from the empty state, a date
\* without recorded activity is absent from dailyData: no date is present
\* whose record has only false or undefined habit values, an empty
\* reflection, an empty focus and no task.
C24_NoRecordWithoutActivity ==
    \A date \in DOMAIN dailyData : HasActivity(dailyData[date])

\* the value the records hold for a (date, habit) pair: none, true or false
StoredValue(dd, cell) ==
    IF cell[1] \in DOMAIN dd /\ cell[2] \in DOMAIN dd[cell[1]].habits
    THEN <<dd[cell[1]].habits[cell[2]]>> ELSE << >>

\* C25: toggleHabit changes the local value at once, and when its
\* toggleCompletion call fails and nothing else has touched the same
\* (date, habit) since the toggle, the local completed / not completed
\* value after the failure is the one before the toggle, and every other
\* date and habit is unchanged.
C25_RevertOnFailure ==
    [][/\ ToggleHabit =>
              \E p \in pending' \ pending :
                  LocalValue(dailyData', p.date, p.habitId) = ~p.was
       /\ \A p \in pending :
              (p.op = "toggleHabit" /\ p.alone /\ ToggleCompletionFailsFor(p)) =>
                  /\ LocalValue(dailyData', p.date, p.habitId) = p.was
                  /\ DOMAIN dailyData' = DOMAIN dailyData
                  /\ \A cell \in ToggleCells \ {<<p.date, p.habitId>>} :
                         StoredValue(dailyData', cell) = StoredValue(dailyData, cell)]_vars

\* C25 happens: one toggle was made, of a habit without local value; its
\* call has failed, and the habit is not completed locally and has no
\* completion at the backend
C25_Witness ==
    /\ Len(requests) = 1
    /\ pending = {}
    /\ requests[1].completed
    /\ StoredValue(dailyData, <<requests[1].date, requests[1].habitId>>) = <<FALSE>>
    /\ <<requests[1].date, requests[1].habitId>> \notin server.completions

\* C26: once every toggleHabit call has settled, the local value of every
\* (date, habit) is the one the backend holds: the value the last
\* successful call wrote, or the original one.
C26_LocalEqualsBackend ==
    pending = {} =>
        \A cell \in ToggleCells :
            LocalValue(dailyData, cell[1], cell[2]) = (cell \in server.completions)

\* C27: on the same completions of a habit and the same reference date,
\* getCurrentStreak, getHabitStreak and calculateCurrentStreak (applied to
\* the dates on which the habit's value is true) return the same number
C27_CurrentStreaksAgree ==
    ~Idle =>
        /\ result = getCurrentStreak(dailyData, "a", today)
        /\ result = getHabitStreak(dailyData, "a", today)
        /\ result = calculateCurrentStreak(TrueDates(dailyData, "a"), today)

\* C28: calculateHabitStats returns a current streak that is at most the
\* longest streak, and a longest streak that is at most the number of
\* distinct dates in the collection
C28_StreaksAreOrdered ==
    call.fn = "calculateHabitStats" =>
        /\ result.currentStreak <= result.longestStreak
        /\ result.longestStreak <= Cardinality(NewSet(completionDates))

\* a collection with a repeated date whose current streak is its longest
\* streak and covers every distinct date
C28_Witness ==
    /\ call.fn = "calculateHabitStats"
    /\ Cardinality(NewSet(completionDates)) < Len(completionDates)
    /\ result.currentStreak = 2
    /\ result.longestStreak = 2
    /\ Cardinality(NewSet(completionDates)) = 2

\* C29: in every state of AuthProvider a profile that is not null comes
\* with a user that is not null, and it is the profile of that user
C29_ProfileBelongsToUser ==
    auth.profile # Null =>
        /\ auth.user # Null
        /\ auth.profile.id = auth.user.id

\* C30: a login or signup sets loading when it starts; the step at which it
\* resolves, whatever the auth service answered, leaves loading false; a
\* failed call leaves user and profile as they were and stores the message
C30_LoadingClearedOnResolve ==
    [][/\ (Login \/ Signup) => auth'.loading
       /\ (AuthCallFails \/ AuthCallGetsNothing \/ AuthCallGetsProfile) => ~auth'.loading
       /\ AuthCallFails => /\ auth'.user = auth.user
                           /\ auth'.profile = auth.profile
                           /\ auth'.error \in {r.error : r \in AuthResults} \ {"null"}]_vars

====
